---- MODULE Spec2Model ----
(***************************************************************************)
(* Tabinator: the group rule store (group_rules rows written by            *)
(* POST/PUT /api/groups), the rule assembler of GET /api/groups,           *)
(* GET /api/data and the Tabinator export, and the match evaluator that    *)
(* decides which links belong to a group.                                  *)
(*                                                                         *)
(* Strings whose content matters (match values, link names, urls, tags)    *)
(* are sequences of one-character strings, so that equality, prefix and    *)
(* letter case are distinguishable.  A JSON object is a function from the  *)
(* names of the properties it has to their values: a block {tags:["a"]}    *)
(* is a function with domain {"tags"}.                                     *)
(***************************************************************************)
EXTENDS Integers, Sequences, FiniteSets, TLC

VARIABLES
    groups,        \* table groups: set of rows [id, user_id, name]
    nextGroupId,   \* AUTOINCREMENT counter of groups.id
    group_rules,   \* table group_rules: rows in rowid order
    response,      \* the last HTTP request and its response
    asmIn,         \* assembler run: the flat rules handed to it
    asmOut,        \* assembler run: {include, exclude} it produced
    asmStatus,     \* assembler run: HTTP status of the handler, 0 before it ran
    asmPc,         \* assembler run: "idle" | "groups" | "data" | "export" | "evaluated"
    evLinks,       \* evaluator run: the link list given to filterLinks
    evOut,         \* evaluator run: the list filterLinks returned
    links,         \* table links: set of rows [id, user_id, name, url]
    nextLinkId,    \* AUTOINCREMENT counter of links.id
    tags,          \* table tags: set of rows [id, user_id, name]
    nextTagId,     \* AUTOINCREMENT counter of tags.id
    link_tags,     \* table link_tags: set of rows [link_id, tag_id]
    user_config,   \* table user_config: set of rows [user_id, warning_tabs_open, max_tabs_open]
    requests,      \* requests in flight, each at one of its awaited statements
    exported,      \* the Tabinator export file the client holds
    users,         \* table users: set of rows [id, username, email, password_hash]
    linkUrlCache,  \* service worker: the Set of link urls fetched last
    cacheTimestamp, \* service worker: Date.now() when the cache was filled, 0 = invalid
    now,           \* Date.now() in the browser
    tabUrl,        \* the url of the active tab
    badge,         \* the badge text of the active tab
    calls,         \* service worker: async calls waiting for a response
    changeCount,   \* number of linkChanged messages the service worker received
    cacheGen,      \* changeCount at the time the server served the cached list
    existingLink   \* popup: what checkLinkExists returned

vars == <<groups, nextGroupId, group_rules, response,
          asmIn, asmOut, asmStatus, asmPc, evLinks, evOut,
          links, nextLinkId, tags, nextTagId, link_tags, user_config,
          requests, exported, users,
          linkUrlCache, cacheTimestamp, now, tabUrl, badge, calls,
          changeCount, cacheGen, existingLink>>

storeVars == <<groups, nextGroupId, group_rules, response>>
engineVars == <<asmIn, asmOut, asmStatus, asmPc, evLinks, evOut>>
linkVars == <<links, nextLinkId, tags, nextTagId, link_tags>>
workerVars == <<linkUrlCache, cacheTimestamp, now, tabUrl, badge, calls,
                changeCount, cacheGen>>
extVars == <<workerVars, existingLink>>
clientVars == <<requests, exported, extVars>>
restVars == <<linkVars, user_config, users, clientVars>>

----------------------------------------------------------------------------
(* Bounds *)

MaxGroups == 2      \* groups ever created (ids are never reused)
MaxBlocks == 2      \* blocks in a submitted include sequence
MaxExcludeBlocks == 1   \* blocks in a submitted exclude sequence
MaxRules == 3       \* flat rules handed to one assembler run
MaxLinks == 2       \* links in one filterLinks input

----------------------------------------------------------------------------
(* Value universes *)

Users == {1, 2}
Names == {"g", "h"}

sA == <<"a">>
sAB == <<"a", "b">>
sUpA == <<"A">>
Values == {sA, sAB, sUpA}

\* values a client may also send: " a" and the empty string
sPad == <<" ", "a">>
sEmpty == <<>>

RuleTypes == {"include", "exclude"}
MatchTypes == {"tags", "names", "urls"}

\* the three fields in the order the write path visits them
MatchTypeOrder == <<"tags", "names", "urls">>

----------------------------------------------------------------------------
(* Generic helpers *)

RECURSIVE SeqsUpTo(_, _)
SeqsUpTo(S, n) ==
    IF n = 0 THEN {<<>>}
    ELSE LET shorter == SeqsUpTo(S, n - 1)
         IN shorter \cup {Append(s, x) : s \in {t \in shorter : Len(t) = n - 1}, x \in S}

Range(s) == {s[i] : i \in DOMAIN s}

RECURSIVE Concat(_)
Concat(ss) == IF ss = <<>> THEN <<>> ELSE Head(ss) \o Concat(Tail(ss))

----------------------------------------------------------------------------
(* Rule assembler: GET /api/groups (routes/groups.js), GET /api/data and   *)
(* the Tabinator export (routes/links.js) hold the same code.              *)
(* A flat rule is a row [rule_type, match_type, match_value, block_index]. *)

DigitChars == <<"0", "1", "2", "3", "4", "5", "6", "7", "8", "9">>

\* String(n) as the template literal `${rule.block_index}` produces it
RECURSIVE NatToString(_)
NatToString(n) ==
    IF n < 10 THEN <<DigitChars[n + 1]>>
    ELSE Append(NatToString(n \div 10), DigitChars[(n % 10) + 1])

NumberToString(n) == IF n < 0 THEN <<"-">> \o NatToString(0 - n) ELSE NatToString(n)

\* `${rule.rule_type}_${rule.block_index}`
blockKey(rule) == <<rule.rule_type, "_">> \o NumberToString(rule.block_index)

\* key.split('_')[1]: the piece between the first and the second underscore
RECURSIVE UpToUnderscore(_)
UpToUnderscore(s) ==
    IF s = <<>> \/ Head(s) = "_" THEN <<>>
    ELSE <<Head(s)>> \o UpToUnderscore(Tail(s))

RECURSIVE AfterUnderscore(_)
AfterUnderscore(s) ==
    IF s = <<>> THEN <<>>
    ELSE IF Head(s) = "_" THEN Tail(s)
    ELSE AfterUnderscore(Tail(s))

splitIndex1(key) == UpToUnderscore(AfterUnderscore(key))

DigitVal(c) == CHOOSE d \in 0..9 : DigitChars[d + 1] = c

RECURSIVE ParseDigits(_, _)
ParseDigits(s, acc) ==
    IF s = <<>> \/ Head(s) \notin Range(DigitChars) THEN acc
    ELSE ParseDigits(Tail(s), acc * 10 + DigitVal(Head(s)))

\* parseInt on an optional sign followed by decimal digits (every block key
\* of this model has digits after its underscore, so NaN does not arise)
parseInt(s) ==
    IF s # <<>> /\ Head(s) = "-" THEN 0 - ParseDigits(Tail(s), 0)
    ELSE ParseDigits(s, 0)

\* the comparator left out: Array.prototype.sort then compares the keys as
\* strings, character by character
RECURSIVE StringCompare(_, _)
StringCompare(a, b) ==
    IF a = <<>> /\ b = <<>> THEN 0
    ELSE IF a = <<>> THEN 0 - 1
    ELSE IF b = <<>> THEN 1
    ELSE IF Head(a) = Head(b) THEN StringCompare(Tail(a), Tail(b))
    ELSE IF Head(a) = "-" THEN 0 - 1
    ELSE IF Head(b) = "-" THEN 1
    ELSE DigitVal(Head(a)) - DigitVal(Head(b))

compareKeysAsStrings(a, b) == StringCompare(splitIndex1(a), splitIndex1(b))

\* (a, b) => parseInt(a.split('_')[1]) - parseInt(b.split('_')[1])
compareKeys(a, b) == parseInt(splitIndex1(a)) - parseInt(splitIndex1(b))

\* Array.prototype.sort with the comparator above (stable)
RECURSIVE sortKeys(_)
sortKeys(keys) ==
    IF Len(keys) <= 1 THEN keys
    ELSE LET front == sortKeys(SubSeq(keys, 1, Len(keys) - 1))
             k == keys[Len(keys)]
             n == Cardinality({i \in DOMAIN front : compareKeys(front[i], k) <= 0})
         IN SubSeq(front, 1, n) \o <<k>> \o SubSeq(front, n + 1, Len(front))

\* A JS object used as a map is a sequence of [key, val] in insertion order,
\* the order Object.keys reports for keys that are not array indices.
HasKey(obj, k) == \E i \in DOMAIN obj : obj[i].key = k
Lookup(obj, k) == obj[CHOOSE i \in DOMAIN obj : obj[i].key = k].val
ObjectKeys(obj) == [i \in DOMAIN obj |-> obj[i].key]

EmptyBlock == [t \in {} |-> <<>>]

\* if (!block[match_type]) block[match_type] = []; block[match_type].push(value)
pushValue(block, matchType, value) ==
    [t \in (DOMAIN block) \cup {matchType} |->
        IF t = matchType
        THEN IF t \in DOMAIN block THEN Append(block[t], value) ELSE <<value>>
        ELSE block[t]]

\* one iteration of `for (const rule of rules)` on one of the two objects
addRule(blocks, rule) ==
    LET k == blockKey(rule)
        withKey == IF HasKey(blocks, k) THEN blocks
                   ELSE Append(blocks, [key |-> k, val |-> EmptyBlock])
    IN [i \in DOMAIN withKey |->
          IF withKey[i].key = k
          THEN [key |-> k, val |-> pushValue(withKey[i].val, rule.match_type, rule.match_value)]
          ELSE withKey[i]]

\* rule.rule_type === 'include' ? includeBlocks : excludeBlocks
RECURSIVE bucketRules(_, _)
bucketRules(rules, acc) ==
    IF rules = <<>> THEN acc
    ELSE LET rule == Head(rules)
         IN bucketRules(Tail(rules),
                IF rule.rule_type = "include"
                THEN [acc EXCEPT !.includeBlocks = addRule(@, rule)]
                ELSE [acc EXCEPT !.excludeBlocks = addRule(@, rule)])

\* for (const key of sortedKeys) out.push(blocks[key])
emitBlocks(blocks) ==
    LET keys == sortKeys(ObjectKeys(blocks))
    IN [i \in DOMAIN keys |-> Lookup(blocks, keys[i])]

\* routes/groups.js: rules -> {include, exclude}
Assemble(rules) ==
    LET b == bucketRules(rules, [includeBlocks |-> <<>>, excludeBlocks |-> <<>>])
    IN [include |-> emitBlocks(b.includeBlocks),
        exclude |-> emitBlocks(b.excludeBlocks)]

\* routes/links.js GET /data and GET /export (tabinator): the same loop, then
\* include.length > 0 ? include : []
AssembleForData(rules) ==
    LET g == Assemble(rules)
    IN [include |-> IF Len(g.include) > 0 THEN g.include ELSE <<>>,
        exclude |-> IF Len(g.exclude) > 0 THEN g.exclude ELSE <<>>]

AssembleForExport(rules) ==
    LET g == Assemble(rules)
    IN [include |-> IF Len(g.include) > 0 THEN g.include ELSE <<>>,
        exclude |-> IF Len(g.exclude) > 0 THEN g.exclude ELSE <<>>]

----------------------------------------------------------------------------
(* Match evaluator and group service.  The repository runs them in the     *)
(* browser page, which is not among the sources; they follow spec 4.2, 4.3. *)
(* A link is [name, url, tags], tags a set.                                *)

\* a field the block does not carry counts as the empty set
fieldSet(block, matchType) ==
    IF matchType \in DOMAIN block THEN Range(block[matchType]) ELSE {}

isEmptyBlock(block) == \A t \in MatchTypes : fieldSet(block, t) = {}

RECURSIVE IsPrefix(_, _)
IsPrefix(p, s) ==
    IF p = <<>> THEN TRUE
    ELSE IF s = <<>> THEN FALSE
    ELSE Head(p) = Head(s) /\ IsPrefix(Tail(p), Tail(s))

RECURSIVE IsSubstring(_, _)
IsSubstring(p, s) ==
    IF IsPrefix(p, s) THEN TRUE
    ELSE IF s = <<>> THEN FALSE
    ELSE IsSubstring(p, Tail(s))

\* url compared with String.prototype.includes instead of ===
blockMatchesBySubstring(link, block) ==
    IF isEmptyBlock(block) THEN TRUE
    ELSE \/ fieldSet(block, "tags") \cap link.tags # {}
         \/ link.name \in fieldSet(block, "names")
         \/ \E u \in fieldSet(block, "urls") : IsSubstring(u, link.url)

blockMatches(link, block) ==
    IF isEmptyBlock(block) THEN TRUE
    ELSE \/ fieldSet(block, "tags") \cap link.tags # {}
         \/ link.name \in fieldSet(block, "names")
         \/ link.url \in fieldSet(block, "urls")

\* OR between include blocks instead of AND
includeMatchesAny(link, group) ==
    IF group.include = <<>> THEN TRUE
    ELSE \E i \in DOMAIN group.include : blockMatches(link, group.include[i])

includeMatches(link, group) ==
    IF group.include = <<>> THEN TRUE
    ELSE \A i \in DOMAIN group.include : blockMatches(link, group.include[i])

excludeMatches(link, group) ==
    IF group.exclude = <<>> THEN FALSE
    ELSE \E i \in DOMAIN group.exclude : blockMatches(link, group.exclude[i])

matches(link, group) == includeMatches(link, group) /\ ~excludeMatches(link, group)

\* matching links collected by prepending: the result comes out reversed
RECURSIVE filterLinksPrepending(_, _)
filterLinksPrepending(allLinks, group) ==
    IF allLinks = <<>> THEN <<>>
    ELSE filterLinksPrepending(Tail(allLinks), group)
         \o (IF matches(Head(allLinks), group) THEN <<Head(allLinks)>> ELSE <<>>)

RECURSIVE filterLinks(_, _)
filterLinks(allLinks, group) ==
    IF allLinks = <<>> THEN <<>>
    ELSE (IF matches(Head(allLinks), group) THEN <<Head(allLinks)>> ELSE <<>>)
         \o filterLinks(Tail(allLinks), group)

----------------------------------------------------------------------------
(* Write path: the rule insertion loops of POST /api/groups and            *)
(* PUT /api/groups/:id.                                                    *)

Rule(groupId, ruleType, matchType, value, blockIndex) ==
    [group_id |-> groupId, rule_type |-> ruleType, match_type |-> matchType,
     match_value |-> value, block_index |-> blockIndex]

\* if (block.tags && Array.isArray(block.tags)) for (const value of block.tags) INSERT
fieldRows(groupId, ruleType, block, matchType, blockIndex) ==
    IF matchType \in DOMAIN block
    THEN [i \in DOMAIN block[matchType] |->
            Rule(groupId, ruleType, matchType, block[matchType][i], blockIndex)]
    ELSE <<>>

blockRows(groupId, ruleType, block, blockIndex) ==
    Concat([k \in DOMAIN MatchTypeOrder |->
              fieldRows(groupId, ruleType, block, MatchTypeOrder[k], blockIndex)])

\* every block numbered 0 whatever its position
sequenceRowsIndexZero(groupId, ruleType, blockSeq) ==
    Concat([i \in DOMAIN blockSeq |-> blockRows(groupId, ruleType, blockSeq[i], 0)])

\* for (let blockIndex = 0; blockIndex < include.length; blockIndex++)
sequenceRows(groupId, ruleType, blockSeq) ==
    Concat([i \in DOMAIN blockSeq |-> blockRows(groupId, ruleType, blockSeq[i], i - 1)])

insertedRows(groupId, include, exclude) ==
    sequenceRows(groupId, "include", include) \o sequenceRows(groupId, "exclude", exclude)

----------------------------------------------------------------------------
(* Store queries *)

ruleTypeRank(t) == IF t = "exclude" THEN 0 ELSE 1
matchTypeRank(t) == IF t = "names" THEN 0 ELSE IF t = "tags" THEN 1 ELSE 2

\* ORDER BY rule_type, block_index, match_type
ruleOrderLeq(a, b) ==
    IF ruleTypeRank(a.rule_type) # ruleTypeRank(b.rule_type)
    THEN ruleTypeRank(a.rule_type) < ruleTypeRank(b.rule_type)
    ELSE IF a.block_index # b.block_index THEN a.block_index < b.block_index
    ELSE matchTypeRank(a.match_type) <= matchTypeRank(b.match_type)

RECURSIVE orderRules(_)
orderRules(rows) ==
    IF Len(rows) <= 1 THEN rows
    ELSE LET front == orderRules(SubSeq(rows, 1, Len(rows) - 1))
             r == rows[Len(rows)]
             n == Cardinality({i \in DOMAIN front : ruleOrderLeq(front[i], r)})
         IN SubSeq(front, 1, n) \o <<r>> \o SubSeq(front, n + 1, Len(front))

\* the rows of one group, in rowid order
rowsOfGroup(table, groupId) ==
    LET keep(r) == r.group_id = groupId IN SelectSeq(table, keep)

\* SELECT rule_type, match_type, match_value, block_index FROM group_rules
\* WHERE group_id = ? ORDER BY rule_type, block_index, match_type
selectRules(groupId) ==
    LET rows == orderRules(rowsOfGroup(group_rules, groupId))
    IN [i \in DOMAIN rows |->
          [rule_type |-> rows[i].rule_type, match_type |-> rows[i].match_type,
           match_value |-> rows[i].match_value, block_index |-> rows[i].block_index]]

NameOrder == <<"g", "h">>

RECURSIVE byId(_)
byId(rows) ==
    IF rows = {} THEN <<>>
    ELSE LET first == CHOOSE r \in rows : \A o \in rows : r.id <= o.id
         IN <<first>> \o byId(rows \ {first})

\* SELECT id, name FROM groups WHERE user_id = ? ORDER BY name
selectGroups(userId) ==
    Concat([k \in DOMAIN NameOrder |->
              byId({g \in groups : g.user_id = userId /\ g.name = NameOrder[k]})])

\* the body of GET /api/groups
formattedGroups(userId) ==
    LET gs == selectGroups(userId)
    IN [i \in DOMAIN gs |->
          LET a == Assemble(selectRules(gs[i].id))
          IN [id |-> gs[i].id, name |-> gs[i].name,
              include |-> a.include, exclude |-> a.exclude]]

----------------------------------------------------------------------------
(* Requests *)

\* blocks a client may submit: a field may be missing, empty, or repeat a value
InputBlocks ==
    { [tags |-> <<sA, sAB>>, names |-> <<>>],
      [names |-> <<sUpA>>, urls |-> <<sAB>>],
      EmptyBlock }

ExcludeInputBlocks ==
    { [tags |-> <<sA, sA>>, names |-> <<sPad, sEmpty>>, urls |-> <<sUpA>>] }

IncludeInputs == SeqsUpTo(InputBlocks, MaxBlocks)
ExcludeInputs == SeqsUpTo(ExcludeInputBlocks, MaxExcludeBlocks)

\* the bodies used where several groups of several users are stored at once
StoreIncludes == { <<>>, <<[tags |-> <<sA, sAB>>], [names |-> <<sUpA>>, urls |-> <<sAB>>]>> }
StoreExcludes == { <<>>, <<[tags |-> <<sAB>>]>> }

----------------------------------------------------------------------------
(* The group store: POST /api/groups, PUT /api/groups/:id, GET /api/groups *)

StoreInit ==
    /\ groups = {}
    /\ nextGroupId = 1
    /\ group_rules = <<>>
    /\ response = [op |-> "none", status |-> 0]

EngineIdle ==
    /\ asmIn = <<>>
    /\ asmOut = [include |-> <<>>, exclude |-> <<>>]
    /\ asmStatus = 0
    /\ asmPc = "idle"
    /\ evLinks = <<>>
    /\ evOut = <<>>

NoFile == [version |-> "none"]

\* checkLinkExists returned null
NoLink == [name |-> <<>>]

\* the extension before the browser started it
ExtIdle ==
    /\ linkUrlCache = {}
    /\ cacheTimestamp = 0
    /\ now = 0
    /\ tabUrl = <<>>
    /\ badge = ""
    /\ calls = <<>>
    /\ changeCount = 0
    /\ cacheGen = 0
    /\ existingLink = NoLink

\* bcrypt.hash(password, 10); the salt is left out
bcryptHash(password) == <<"$2b$10$">> \o password

\* bcrypt.compare(password, hash)
bcryptCompare(password, hash) == hash = bcryptHash(password)

pwOld == <<"P", "a", "s", "s", "w", "0", "r", "d">>
pwNew == <<"N", "e", "w", "p", "a", "s", "s", "1">>
mailA == <<"a", "@", "b", ".", "c">>
mailB == <<"b", "@", "b", ".", "c">>

\* the accounts registered before the requests arrive
RegisteredUsers ==
    { [id |-> 1, username |-> <<"u", "s", "r", "1">>, email |-> mailA,
       password_hash |-> bcryptHash(pwOld)],
      [id |-> 2, username |-> <<"u", "s", "r", "2">>, email |-> mailB,
       password_hash |-> bcryptHash(pwOld)] }

RestInit ==
    /\ links = {}
    /\ nextLinkId = 1
    /\ tags = {}
    /\ nextTagId = 1
    /\ link_tags = {}
    /\ user_config = {}
    /\ requests = <<>>
    /\ exported = NoFile
    /\ ExtIdle
    /\ users = RegisteredUsers

Init == StoreInit /\ EngineIdle /\ RestInit

\* an element of include or exclude that is JSON null: body('include')
\* .isArray() accepts it and block.tags throws a TypeError inside the try
NullBlock == [null |-> TRUE]

firstNull(blockSeq) ==
    LET bad == {i \in DOMAIN blockSeq : blockSeq[i] = NullBlock}
    IN IF bad = {} THEN 0 ELSE CHOOSE i \in bad : \A j \in bad : i <= j

\* whether a statement of the two insert loops throws
insertThrows(include, exclude) == firstNull(include) # 0 \/ firstNull(exclude) # 0

\* the rows the two loops have inserted when they end or when a statement
\* throws: every INSERT is committed by itself
writtenRows(groupId, include, exclude) ==
    IF firstNull(include) # 0
    THEN sequenceRows(groupId, "include", SubSeq(include, 1, firstNull(include) - 1))
    ELSE IF firstNull(exclude) # 0
    THEN sequenceRows(groupId, "include", include)
            \o sequenceRows(groupId, "exclude",
                            SubSeq(exclude, 1, firstNull(exclude) - 1))
    ELSE insertedRows(groupId, include, exclude)

\* catch (error) { res.status(500).json({ error: 'Failed to ... group' }) }
failedOr(op, include, exclude, sent) ==
    IF insertThrows(include, exclude) THEN [op |-> op, status |-> 500] ELSE sent

PostGroup(userId, name, include, exclude) ==
    /\ nextGroupId <= MaxGroups
    /\ IF \E g \in groups : g.user_id = userId /\ g.name = name
       THEN /\ response' = [op |-> "POST", status |-> 409]
            /\ UNCHANGED <<groups, nextGroupId, group_rules>>
       ELSE LET groupId == nextGroupId
            IN /\ groups' = groups \cup {[id |-> groupId, user_id |-> userId, name |-> name]}
               /\ nextGroupId' = nextGroupId + 1
               /\ group_rules' = group_rules \o writtenRows(groupId, include, exclude)
               /\ response' = failedOr("POST", include, exclude,
                                 [op |-> "POST", status |-> 201, user |-> userId,
                                  id |-> groupId, name |-> name,
                                  include |-> include, exclude |-> exclude])
    /\ UNCHANGED engineVars
    /\ UNCHANGED restVars

\* DELETE FROM group_rules, the WHERE clause left out
deleteRulesOfEveryGroup(table, groupId) == <<>>

\* DELETE FROM group_rules WHERE group_id = ?
deleteRules(table, groupId) ==
    LET kept(r) == r.group_id # groupId IN SelectSeq(table, kept)

\* the update without the SELECT that looks for the name on another group
PutGroupWithoutNameCheck(userId, groupId, name, include, exclude) ==
    /\ IF ~\E g \in groups : g.id = groupId /\ g.user_id = userId
       THEN /\ response' = [op |-> "PUT", status |-> 404]
            /\ UNCHANGED <<groups, group_rules>>
       ELSE    /\ groups' = {IF g.id = groupId THEN [g EXCEPT !.name = name] ELSE g : g \in groups}
               /\ group_rules' = deleteRules(group_rules, groupId)
                                   \o insertedRows(groupId, include, exclude)
               /\ response' = [op |-> "PUT", status |-> 200, user |-> userId,
                               id |-> groupId, name |-> name,
                               include |-> include, exclude |-> exclude,
                               changes |-> Len(rowsOfGroup(group_rules, groupId))]
    /\ UNCHANGED <<nextGroupId>>
    /\ UNCHANGED engineVars
    /\ UNCHANGED restVars

PutGroup(userId, groupId, name, include, exclude) ==
    /\ IF ~\E g \in groups : g.id = groupId /\ g.user_id = userId
       THEN /\ response' = [op |-> "PUT", status |-> 404]
            /\ UNCHANGED <<groups, group_rules>>
       ELSE IF \E g \in groups : g.user_id = userId /\ g.name = name /\ g.id # groupId
       THEN /\ response' = [op |-> "PUT", status |-> 409]
            /\ UNCHANGED <<groups, group_rules>>
       ELSE    /\ groups' = {IF g.id = groupId THEN [g EXCEPT !.name = name] ELSE g : g \in groups}
               /\ group_rules' = deleteRules(group_rules, groupId)
                                   \o writtenRows(groupId, include, exclude)
               /\ response' = failedOr("PUT", include, exclude,
                                 [op |-> "PUT", status |-> 200, user |-> userId,
                                  id |-> groupId, name |-> name,
                                  include |-> include, exclude |-> exclude,
                                  changes |-> Len(rowsOfGroup(group_rules, groupId))])
    /\ UNCHANGED <<nextGroupId>>
    /\ UNCHANGED engineVars
    /\ UNCHANGED restVars

GetGroups(userId) ==
    /\ response' = [op |-> "GET", status |-> 200, user |-> userId,
                    body |-> formattedGroups(userId)]
    /\ UNCHANGED <<groups, nextGroupId, group_rules>>
    /\ UNCHANGED engineVars
    /\ UNCHANGED restVars

\* every connection is opened by getDatabase, which issues no
\* PRAGMA foreign_keys = ON: SQLite then parses the REFERENCES clauses of
\* the schema and enforces none of them
foreign_keys == FALSE

\* group_rules after DELETE FROM groups WHERE id = ?
cascade(table, groupId) ==
    IF foreign_keys THEN deleteRules(table, groupId) ELSE table

DeleteGroup(userId, groupId) ==
    /\ IF ~\E g \in groups : g.id = groupId /\ g.user_id = userId
       THEN /\ response' = [op |-> "DELETE", status |-> 404]
            /\ UNCHANGED <<groups, group_rules>>
       ELSE /\ groups' = {g \in groups : g.id # groupId}
            /\ group_rules' = cascade(group_rules, groupId)
            /\ response' = [op |-> "DELETE", status |-> 200, user |-> userId,
                            id |-> groupId]
    /\ UNCHANGED <<nextGroupId>>
    /\ UNCHANGED engineVars
    /\ UNCHANGED restVars

Next ==
    \/ \E u \in Users, n \in Names, inc \in StoreIncludes, exc \in StoreExcludes :
          PostGroup(u, n, inc, exc)
    \/ \E u \in Users, id \in 1..MaxGroups, n \in Names,
          inc \in StoreIncludes, exc \in StoreExcludes :
          PutGroup(u, id, n, inc, exc)
    \/ \E u \in Users : GetGroups(u)
    \/ \E u \in Users, id \in 1..MaxGroups : DeleteGroup(u, id)

Spec == Init /\ [][Next]_vars

\* bodies with a null element in front of or behind a block, in include
\* or in exclude
ThrowingBodies ==
    { [include |-> <<[tags |-> <<sA, sAB>>], NullBlock>>, exclude |-> <<>>],
      [include |-> <<NullBlock>>, exclude |-> <<[tags |-> <<sAB>>]>>],
      [include |-> <<[names |-> <<sUpA>>]>>, exclude |-> <<[urls |-> <<sA>>], NullBlock>>] }

StoreBodies ==
    { [include |-> <<>>, exclude |-> <<>>],
      [include |-> <<[tags |-> <<sA, sAB>>], [names |-> <<sUpA>>, urls |-> <<sAB>>]>>,
       exclude |-> <<[tags |-> <<sAB>>]>>] }

\* user 1 creates, updates and reads groups; some bodies make a statement
\* throw after the first write
FailureNext ==
    \/ \E n \in Names, b \in StoreBodies \cup ThrowingBodies :
          PostGroup(1, n, b.include, b.exclude)
    \/ \E id \in 1..MaxGroups, n \in Names, b \in StoreBodies \cup ThrowingBodies :
          PutGroup(1, id, n, b.include, b.exclude)
    \/ GetGroups(1)

SpecFailure == Init /\ [][FailureNext]_vars

\* one client saving and re-saving one group, over every body of the bounds
RoundTripNext ==
    \/ \E n \in Names, inc \in IncludeInputs, exc \in ExcludeInputs :
          /\ groups = {}
          /\ PostGroup(1, n, inc, exc)
    \/ \E n \in Names, inc \in IncludeInputs, exc \in ExcludeInputs :
          /\ groups # {}
          /\ PutGroup(1, 1, n, inc, exc)
    \/ GetGroups(1)

SpecRoundTrip == Init /\ [][RoundTripNext]_vars

----------------------------------------------------------------------------
(* Group requests in flight together.  A handler is a chain of awaited     *)
(* statements, each on the handler's own connection and outside any        *)
(* transaction, so the statements of two requests interleave freely; one   *)
(* action below is one awaited statement.                                  *)

Slots == {1, 2}
Idle == [op |-> "idle"]

\* the definition stored before the requests arrive, and the one sent by edits
OldBody == [include |-> <<[tags |-> <<sA>>]>>, exclude |-> <<>>]
NewBody == [include |-> <<[names |-> <<sUpA>>], [urls |-> <<sAB>>]>>, exclude |-> <<>>]
ConcBodies == {OldBody, NewBody}

\* UNIQUE(user_id, name) of table groups, left out
uniqueGroupNameUnenforced(table, row) == TRUE

\* UNIQUE(user_id, name) of table groups: may row be written next to the others
uniqueGroupName(table, row) ==
    ~\E g \in table : g.id # row.id /\ g.user_id = row.user_id /\ g.name = row.name

Continue(slot, req) ==
    /\ requests' = [requests EXCEPT ![slot] = req]
    /\ UNCHANGED response

Finish(slot, res) ==
    /\ requests' = [requests EXCEPT ![slot] = Idle]
    /\ response' = res

ConcFrame == UNCHANGED <<engineVars, linkVars, user_config, users, exported, extVars>>

StartRequest(slot, req) ==
    /\ requests[slot] = Idle
    /\ Continue(slot, req)
    /\ UNCHANGED <<groups, nextGroupId, group_rules>>
    /\ ConcFrame

\* PUT: SELECT id FROM groups WHERE id = ? AND user_id = ?
PutFind(slot) ==
    LET r == requests[slot]
    IN /\ r.op = "PUT" /\ r.pc = "find"
       /\ IF \E g \in groups : g.id = r.id /\ g.user_id = r.user
          THEN Continue(slot, [r EXCEPT !.pc = "dupcheck"])
          ELSE Finish(slot, [op |-> "PUT", status |-> 404])
       /\ UNCHANGED <<groups, nextGroupId, group_rules>>
       /\ ConcFrame

\* PUT: SELECT id FROM groups WHERE user_id = ? AND name = ? AND id != ?
PutDupCheck(slot) ==
    LET r == requests[slot]
    IN /\ r.op = "PUT" /\ r.pc = "dupcheck"
       /\ IF \E g \in groups : g.user_id = r.user /\ g.name = r.name /\ g.id # r.id
          THEN Finish(slot, [op |-> "PUT", status |-> 409])
          ELSE Continue(slot, [r EXCEPT !.pc = "update"])
       /\ UNCHANGED <<groups, nextGroupId, group_rules>>
       /\ ConcFrame

\* PUT: UPDATE groups SET name = ? WHERE id = ?
PutUpdate(slot) ==
    LET r == requests[slot]
        renamed == {IF g.id = r.id THEN [g EXCEPT !.name = r.name] ELSE g : g \in groups}
    IN /\ r.op = "PUT" /\ r.pc = "update"
       /\ IF \A g \in renamed : uniqueGroupName(renamed, g)
          THEN /\ groups' = renamed
               /\ Continue(slot, [r EXCEPT !.pc = "delete"])
          ELSE /\ UNCHANGED groups
               /\ Finish(slot, [op |-> "PUT", status |-> 500])
       /\ UNCHANGED <<nextGroupId, group_rules>>
       /\ ConcFrame

\* PUT: DELETE FROM group_rules WHERE group_id = ?
PutDelete(slot) ==
    LET r == requests[slot]
    IN /\ r.op = "PUT" /\ r.pc = "delete"
       /\ group_rules' = deleteRules(group_rules, r.id)
       /\ Continue(slot, [r EXCEPT !.pc = "insert",
                                   !.todo = insertedRows(r.id, r.include, r.exclude)])
       /\ UNCHANGED <<groups, nextGroupId>>
       /\ ConcFrame

\* POST: SELECT id FROM groups WHERE user_id = ? AND name = ?
PostDupCheck(slot) ==
    LET r == requests[slot]
    IN /\ r.op = "POST" /\ r.pc = "dupcheck"
       /\ IF \E g \in groups : g.user_id = r.user /\ g.name = r.name
          THEN Finish(slot, [op |-> "POST", status |-> 409])
          ELSE Continue(slot, [r EXCEPT !.pc = "create"])
       /\ UNCHANGED <<groups, nextGroupId, group_rules>>
       /\ ConcFrame

\* POST: INSERT INTO groups (user_id, name) VALUES (?, ?)
PostCreate(slot) ==
    LET r == requests[slot]
        row == [id |-> nextGroupId, user_id |-> r.user, name |-> r.name]
    IN /\ r.op = "POST" /\ r.pc = "create"
       /\ IF uniqueGroupName(groups, row)
          THEN /\ nextGroupId <= MaxGroups
               /\ groups' = groups \cup {row}
               /\ nextGroupId' = nextGroupId + 1
               /\ Continue(slot, [r EXCEPT !.pc = "insert", !.id = row.id,
                                   !.todo = insertedRows(row.id, r.include, r.exclude)])
          ELSE /\ UNCHANGED <<groups, nextGroupId>>
               /\ Finish(slot, [op |-> "POST", status |-> 500])
       /\ UNCHANGED group_rules
       /\ ConcFrame

\* import: SELECT id FROM groups WHERE user_id = ? AND name = ?
ImportCheck(slot) ==
    LET r == requests[slot]
        found == {g \in groups : g.user_id = r.user /\ g.name = r.name}
    IN /\ r.op = "IMPORT" /\ r.pc = "check"
       /\ IF found # {}
          THEN Continue(slot, [r EXCEPT !.pc = "rename",
                                        !.id = (CHOOSE g \in found : TRUE).id])
          ELSE Continue(slot, [r EXCEPT !.pc = "create"])
       /\ UNCHANGED <<groups, nextGroupId, group_rules>>
       /\ ConcFrame

\* import: UPDATE groups SET name = ? WHERE id = ?; a failure is caught
\* and the group is counted as skipped
ImportRename(slot) ==
    LET r == requests[slot]
        renamed == {IF g.id = r.id THEN [g EXCEPT !.name = r.name] ELSE g : g \in groups}
    IN /\ r.op = "IMPORT" /\ r.pc = "rename"
       /\ IF \A g \in renamed : uniqueGroupName(renamed, g)
          THEN /\ groups' = renamed
               /\ Continue(slot, [r EXCEPT !.pc = "delete"])
          ELSE /\ UNCHANGED groups
               /\ Finish(slot, [op |-> "IMPORT", status |-> 200, skipped |-> 1])
       /\ UNCHANGED <<nextGroupId, group_rules>>
       /\ ConcFrame

\* import: DELETE FROM group_rules WHERE group_id = ?
ImportDelete(slot) ==
    LET r == requests[slot]
    IN /\ r.op = "IMPORT" /\ r.pc = "delete"
       /\ group_rules' = deleteRules(group_rules, r.id)
       /\ Continue(slot, [r EXCEPT !.pc = "insert",
                                   !.todo = insertedRows(r.id, r.include, r.exclude)])
       /\ UNCHANGED <<groups, nextGroupId>>
       /\ ConcFrame

\* import: INSERT INTO groups (user_id, name) VALUES (?, ?)
ImportCreate(slot) ==
    LET r == requests[slot]
        row == [id |-> nextGroupId, user_id |-> r.user, name |-> r.name]
    IN /\ r.op = "IMPORT" /\ r.pc = "create"
       /\ IF uniqueGroupName(groups, row)
          THEN /\ nextGroupId <= MaxGroups
               /\ groups' = groups \cup {row}
               /\ nextGroupId' = nextGroupId + 1
               /\ Continue(slot, [r EXCEPT !.pc = "insert", !.id = row.id,
                                   !.todo = insertedRows(row.id, r.include, r.exclude)])
          ELSE /\ UNCHANGED <<groups, nextGroupId>>
               /\ Finish(slot, [op |-> "IMPORT", status |-> 200, skipped |-> 1])
       /\ UNCHANGED group_rules
       /\ ConcFrame

\* one INSERT INTO group_rules of the insertion loops
InsertRule(slot) ==
    LET r == requests[slot]
    IN /\ r.op \in {"POST", "PUT", "IMPORT"} /\ r.pc = "insert"
       /\ r.todo # <<>>
       /\ group_rules' = Append(group_rules, Head(r.todo))
       /\ Continue(slot, [r EXCEPT !.todo = Tail(r.todo)])
       /\ UNCHANGED <<groups, nextGroupId>>
       /\ ConcFrame

\* res.json after the last insertion
RespondSaved(slot) ==
    LET r == requests[slot]
    IN /\ r.op \in {"POST", "PUT", "IMPORT"} /\ r.pc = "insert"
       /\ r.todo = <<>>
       /\ Finish(slot, [op |-> r.op, status |-> IF r.op = "POST" THEN 201 ELSE 200,
                        id |-> r.id])
       /\ UNCHANGED <<groups, nextGroupId, group_rules>>
       /\ ConcFrame

\* GET: SELECT id, name FROM groups WHERE user_id = ? ORDER BY name
GetSelectGroups(slot) ==
    LET r == requests[slot]
    IN /\ r.op \in {"GET", "DATA"} /\ r.pc = "groups"
       /\ Continue(slot, [r EXCEPT !.pc = "rules", !.todo = selectGroups(r.user)])
       /\ UNCHANGED <<groups, nextGroupId, group_rules>>
       /\ ConcFrame

\* GET: the rule query of the next group and the assembling of its rows
GetSelectRules(slot) ==
    LET r == requests[slot]
        g == Head(r.todo)
        a == IF r.op = "GET" THEN Assemble(selectRules(g.id))
                             ELSE AssembleForData(selectRules(g.id))
    IN /\ r.op \in {"GET", "DATA"} /\ r.pc = "rules"
       /\ r.todo # <<>>
       /\ Continue(slot, [r EXCEPT !.todo = Tail(r.todo),
                                   !.body = Append(r.body,
                                       [id |-> g.id, name |-> g.name,
                                        include |-> a.include, exclude |-> a.exclude])])
       /\ UNCHANGED <<groups, nextGroupId, group_rules>>
       /\ ConcFrame

\* GET: res.json(formattedGroups)
GetRespond(slot) ==
    LET r == requests[slot]
    IN /\ r.op \in {"GET", "DATA"} /\ r.pc = "rules"
       /\ r.todo = <<>>
       /\ Finish(slot, [op |-> r.op, status |-> 200, user |-> r.user, body |-> r.body])
       /\ UNCHANGED <<groups, nextGroupId, group_rules>>
       /\ ConcFrame

\* requests that create or rename groups
WriteRequests ==
    { [op |-> "POST", pc |-> "dupcheck", user |-> 1, id |-> 0, name |-> n,
       include |-> OldBody.include, exclude |-> OldBody.exclude, todo |-> <<>>] :
         n \in Names }
    \cup
    { [op |-> "PUT", pc |-> "find", user |-> 1, id |-> i, name |-> n,
       include |-> OldBody.include, exclude |-> OldBody.exclude, todo |-> <<>>] :
         i \in 1..MaxGroups, n \in Names }
    \cup
    { [op |-> "IMPORT", pc |-> "check", user |-> 1, id |-> 0, name |-> n,
       include |-> OldBody.include, exclude |-> OldBody.exclude, todo |-> <<>>] :
         n \in Names }

\* requests that replace the definition of the stored group "g"
ReplaceRequests ==
    { [op |-> "PUT", pc |-> "find", user |-> 1, id |-> 1, name |-> "g",
       include |-> b.include, exclude |-> b.exclude, todo |-> <<>>] :
         b \in ConcBodies }
    \cup
    { [op |-> "IMPORT", pc |-> "check", user |-> 1, id |-> 0, name |-> "g",
       include |-> NewBody.include, exclude |-> NewBody.exclude, todo |-> <<>>] }

ReadRequests ==
    { [op |-> o, pc |-> "groups", user |-> 1, todo |-> <<>>, body |-> <<>>] :
         o \in {"GET", "DATA"} }

\* group "g" of user 1 is stored, whole, before the requests arrive
ConcInit ==
    /\ groups = {[id |-> 1, user_id |-> 1, name |-> "g"]}
    /\ nextGroupId = 2
    /\ group_rules = insertedRows(1, OldBody.include, OldBody.exclude)
    /\ response = [op |-> "none", status |-> 0]
    /\ EngineIdle
    /\ links = {} /\ nextLinkId = 1 /\ tags = {} /\ nextTagId = 1 /\ link_tags = {}
    /\ user_config = {}
    /\ requests = [slot \in Slots |-> Idle]
    /\ exported = NoFile
    /\ ExtIdle
    /\ users = RegisteredUsers

\* a writer of group "g" next to a reader
ReplaceNext ==
    \/ \E req \in ReplaceRequests : StartRequest(1, req)
    \/ \E req \in ReadRequests : StartRequest(2, req)
    \/ \E slot \in Slots :
        \/ PutFind(slot) \/ PutDupCheck(slot) \/ PutUpdate(slot) \/ PutDelete(slot)
        \/ ImportCheck(slot) \/ ImportRename(slot) \/ ImportDelete(slot)
        \/ InsertRule(slot) \/ RespondSaved(slot)
        \/ GetSelectGroups(slot) \/ GetSelectRules(slot) \/ GetRespond(slot)

SpecReplace == ConcInit /\ [][ReplaceNext]_vars

\* two writers of group names
UniqueNext ==
    \E slot \in Slots :
        \/ \E req \in WriteRequests : StartRequest(slot, req)
        \/ PutFind(slot) \/ PutDupCheck(slot) \/ PutUpdate(slot) \/ PutDelete(slot)
        \/ PostDupCheck(slot) \/ PostCreate(slot)
        \/ ImportCheck(slot) \/ ImportRename(slot) \/ ImportDelete(slot)
        \/ ImportCreate(slot)
        \/ InsertRule(slot) \/ RespondSaved(slot)

SpecUnique == ConcInit /\ [][UniqueNext]_vars

----------------------------------------------------------------------------
(* Links, tags and the import/export of routes/links.js.  A url is a       *)
(* sequence of characters in which the scheme with its "//" is written as  *)
(* one element, so that "http://a" is <<"http://", "a">>.                  *)

MaxTagsPerLink == 50     \* tags.length > 50 is refused
MaxTagLength == 100      \* tag.length <= 100, substring(0, 100)
MaxNameLength == 500     \* name.length > 500 is refused
MaxUrlLength == 2000     \* url.length > 2000 is refused

Whitespace == {" ", "\t", "\n", "\r"}

RECURSIVE trimStart(_)
trimStart(s) ==
    IF s # <<>> /\ Head(s) \in Whitespace THEN trimStart(Tail(s)) ELSE s

RECURSIVE trimEnd(_)
trimEnd(s) ==
    IF s # <<>> /\ s[Len(s)] \in Whitespace
    THEN trimEnd(SubSeq(s, 1, Len(s) - 1)) ELSE s

\* String.prototype.trim
trim(s) == trimEnd(trimStart(s))

\* s.substring(0, n)
substring(s, n) == SubSeq(s, 1, IF Len(s) < n THEN Len(s) ELSE n)

\* str.replace(/[<>]/g, '')
removeAngles(str) ==
    LET kept(c) == c \notin {"<", ">"} IN SelectSeq(str, kept)

\* str.replace(/[<>]/g, '').trim().substring(0, 1000)
sanitizeString(str) == substring(trim(removeAngles(str)), 1000)

\* new URL(string) succeeds and its protocol is http: or https: (the URL
\* parser strips surrounding whitespace and wants a host after the scheme)
isValidUrl(string) ==
    LET t == trim(string)
    IN Len(t) >= 2 /\ t[1] \in {"http://", "https://"}

LinkDb == [links |-> links, nextLinkId |-> nextLinkId, tags |-> tags,
           nextTagId |-> nextTagId, link_tags |-> link_tags]

RECURSIVE addTags(_, _, _, _)
\* for (const tagName of tags): sanitize, skip the empty, get or create the
\* tag, INSERT OR IGNORE INTO link_tags
addTags(db, userId, linkId, tagNames) ==
    IF tagNames = <<>> THEN db
    ELSE LET sanitizedTag == substring(trim(Head(tagNames)), MaxTagLength)
             found == {t \in db.tags : t.user_id = userId /\ t.name = sanitizedTag}
             tagId == IF found # {} THEN (CHOOSE t \in found : TRUE).id
                      ELSE db.nextTagId
             next ==
                IF sanitizedTag = <<>> THEN db
                ELSE [db EXCEPT
                        !.tags = IF found # {} THEN @
                                 ELSE @ \cup {[id |-> tagId, user_id |-> userId,
                                               name |-> sanitizedTag]},
                        !.nextTagId = IF found # {} THEN @ ELSE @ + 1,
                        !.link_tags = @ \cup {[link_id |-> linkId, tag_id |-> tagId]}]
         IN addTags(next, userId, linkId, Tail(tagNames))

\* the old tags of the link kept
clearNoTags(table, linkId) == table

\* DELETE FROM link_tags WHERE link_id = ?
clearTags(table, linkId) == {lt \in table : lt.link_id # linkId}

\* link_tags after DELETE FROM links WHERE id = ?
cascadeLinkTags(table, linkId) ==
    IF foreign_keys THEN {lt \in table : lt.link_id # linkId} ELSE table

\* the tag names of a link
tagNamesOf(linkRows, tagRows, linkId) ==
    {t.name : t \in {t \in tagRows :
                        [link_id |-> linkId, tag_id |-> t.id] \in linkRows}}

SetLinkDb(db) ==
    /\ links' = db.links
    /\ nextLinkId' = db.nextLinkId
    /\ tags' = db.tags
    /\ nextTagId' = db.nextTagId
    /\ link_tags' = db.link_tags

LinkFrame == UNCHANGED <<groups, nextGroupId, group_rules, engineVars,
                         user_config, users, clientVars>>

\* linkValidation: the tags rule
tagsValid(tagList) ==
    /\ Len(tagList) <= MaxTagsPerLink
    /\ \A i \in DOMAIN tagList : Len(tagList[i]) <= MaxTagLength

\* POST /api/links
PostLink(userId, name, url, tagList) ==
    LET tname == trim(name)
        turl == trim(url)
        valid == /\ tname # <<>> /\ Len(tname) <= MaxNameLength
                 /\ turl # <<>> /\ Len(turl) <= MaxUrlLength /\ isValidUrl(turl)
                 /\ tagsValid(tagList)
        sname == sanitizeString(tname)
        linkId == nextLinkId
        inserted == [LinkDb EXCEPT
                       !.links = @ \cup {[id |-> linkId, user_id |-> userId,
                                          name |-> sname, url |-> turl]},
                       !.nextLinkId = @ + 1]
    IN /\ IF ~valid
          THEN /\ response' = [op |-> "POST link", status |-> 400]
               /\ UNCHANGED linkVars
          ELSE IF \E l \in links : l.user_id = userId /\ l.url = turl
          THEN /\ response' = [op |-> "POST link", status |-> 409]
               /\ UNCHANGED linkVars
          ELSE /\ SetLinkDb(addTags(inserted, userId, linkId, tagList))
               /\ response' = [op |-> "POST link", status |-> 201, user |-> userId,
                               url |-> turl]
       /\ LinkFrame

\* PUT /api/links
PutLink(userId, originalUrl, name, url, tagList) ==
    LET valid == /\ originalUrl # <<>>
                 /\ trim(name) # <<>> /\ Len(name) <= MaxNameLength
                 /\ trim(url) # <<>> /\ Len(url) <= MaxUrlLength /\ isValidUrl(url)
                 /\ tagsValid(tagList)
        sanitizedName == substring(trim(removeAngles(name)), MaxNameLength)
        sanitizedUrl == substring(trim(url), MaxUrlLength)
        found == {l \in links : l.user_id = userId /\ l.url = originalUrl}
        link == CHOOSE l \in found : TRUE
        updated == [LinkDb EXCEPT
                      !.links = {IF l.id = link.id
                                 THEN [l EXCEPT !.name = sanitizedName,
                                                !.url = sanitizedUrl]
                                 ELSE l : l \in @},
                      !.link_tags = clearTags(@, link.id)]
    IN /\ IF ~valid
          THEN /\ response' = [op |-> "PUT link", status |-> 400]
               /\ UNCHANGED linkVars
          ELSE IF found = {}
          THEN /\ response' = [op |-> "PUT link", status |-> 404]
               /\ UNCHANGED linkVars
          ELSE IF /\ sanitizedUrl # originalUrl
                  /\ \E l \in links : /\ l.user_id = userId /\ l.url = sanitizedUrl
                                      /\ l.id # link.id
          THEN /\ response' = [op |-> "PUT link", status |-> 409, user |-> userId,
                               url |-> sanitizedUrl]
               /\ UNCHANGED linkVars
          ELSE /\ SetLinkDb(addTags(updated, userId, link.id, tagList))
               /\ response' = [op |-> "PUT link", status |-> 200, user |-> userId,
                               url |-> sanitizedUrl]
       /\ LinkFrame

\* DELETE /api/links
DeleteLink(userId, url) ==
    LET found == {l \in links : l.user_id = userId /\ l.url = url}
        link == CHOOSE l \in found : TRUE
    IN /\ IF url = <<>>
          THEN /\ response' = [op |-> "DELETE link", status |-> 400]
               /\ UNCHANGED linkVars
          ELSE IF found = {}
          THEN /\ response' = [op |-> "DELETE link", status |-> 404]
               /\ UNCHANGED linkVars
          ELSE /\ links' = links \ {link}
               /\ link_tags' = cascadeLinkTags(link_tags, link.id)
               /\ UNCHANGED <<nextLinkId, tags, nextTagId>>
               /\ response' = [op |-> "DELETE link", status |-> 200, user |-> userId]
       /\ LinkFrame

\* 'Untitled'
Untitled == <<"U", "n", "t", "i", "t", "l", "e", "d">>

\* obj.field || ''
fieldOrEmpty(obj, field) == IF field \in DOMAIN obj THEN obj[field] ELSE <<>>

\* if (!url) skip; new URL(url) with protocol http: or https:, else skip
\* (the CSV rows are not put through new URL)
importUrlChecked(url, validate) ==
    url # <<>> /\ (validate => isValidUrl(url))

\* a value of a tags array that is not a string (a JSON number): it has no
\* trim method, so tagName.trim() throws inside the try block of the entry
NotAString == <<"number">>

\* the position of the first tag whose statement throws, 0 when none does
firstThrowing(tagNames) ==
    LET bad == {i \in DOMAIN tagNames : tagNames[i] = NotAString}
    IN IF bad = {} THEN 0 ELSE CHOOSE i \in bad : \A j \in bad : i <= j

\* one entry of an import: skip it, or update the link with its url or
\* create one, then replace the link's tags.  acc = [db, imported, updated,
\* skipped]
mergeEntry(acc, userId, name, url, tagList, validate) ==
    LET db == acc.db
        existing == {l \in db.links : l.user_id = userId /\ l.url = url}
        linkId == IF existing # {} THEN (CHOOSE l \in existing : TRUE).id
                  ELSE db.nextLinkId
        written ==
           IF existing # {}
           THEN [db EXCEPT
                   !.links = {IF l.id = linkId THEN [l EXCEPT !.name = name] ELSE l
                                : l \in @},
                   !.link_tags = clearTags(@, linkId)]
           ELSE [db EXCEPT
                   !.links = @ \cup {[id |-> linkId, user_id |-> userId,
                                      name |-> name, url |-> url]},
                   !.nextLinkId = @ + 1]
        thrown == firstThrowing(tagList)
        reached == IF thrown = 0 THEN tagList ELSE SubSeq(tagList, 1, thrown - 1)
    IN IF ~importUrlChecked(url, validate)
       THEN [acc EXCEPT !.skipped = @ + 1]
       ELSE [acc EXCEPT !.db = addTags(written, userId, linkId, reached),
                        !.updated = IF existing # {} THEN @ + 1 ELSE @,
                        !.imported = IF existing # {} THEN @ ELSE @ + 1,
                        \* catch (error) { errors.push(...); skipped++ }
                        !.skipped = IF thrown # 0 THEN @ + 1 ELSE @]

\* (link.name || '').trim() || 'Untitled'
importedName(raw) == IF trim(raw) = <<>> THEN Untitled ELSE trim(raw)

\* the loop over a links array (also the links of a Tabinator file)
RECURSIVE importLinksArray(_, _, _)
importLinksArray(acc, userId, entries) ==
    IF entries = <<>> THEN acc
    ELSE LET link == Head(entries)
             name == importedName(fieldOrEmpty(link, "name"))
             url == trim(fieldOrEmpty(link, "url"))
             tagList == fieldOrEmpty(link, "tags")
         IN importLinksArray(mergeEntry(acc, userId, name, url, tagList, TRUE),
                             userId, Tail(entries))

StartOfImport == [db |-> LinkDb, imported |-> 0, updated |-> 0, skipped |-> 0]

\* POST /api/import with a links array
ImportLinks(userId, entries) ==
    LET done == importLinksArray(StartOfImport, userId, entries)
    IN /\ SetLinkDb(done.db)
       /\ response' = [op |-> "IMPORT links", status |-> 200, user |-> userId,
                       links |-> entries, imported |-> done.imported,
                       updated |-> done.updated, skipped |-> done.skipped]
       /\ LinkFrame

\* str.split(sep), from position i on
RECURSIVE splitFrom(_, _, _, _, _)
splitFrom(str, sep, i, parts, current) ==
    IF i > Len(str) THEN Append(parts, current)
    ELSE IF str[i] = sep THEN splitFrom(str, sep, i + 1, Append(parts, current), <<>>)
    ELSE splitFrom(str, sep, i + 1, parts, Append(current, str[i]))

split(str, sep) == splitFrom(str, sep, 1, <<>>, <<>>)

\* the character loop of parseCsvLine, from position i on
RECURSIVE parseCsvFrom(_, _, _, _, _)
parseCsvFrom(line, i, fields, currentField, inQuotes) ==
    IF i > Len(line) THEN Append(fields, currentField)
    ELSE IF line[i] = "\""
         THEN IF inQuotes /\ i < Len(line) /\ line[i + 1] = "\""
              THEN parseCsvFrom(line, i + 2, fields, Append(currentField, "\""), inQuotes)
              ELSE parseCsvFrom(line, i + 1, fields, currentField, ~inQuotes)
    ELSE IF line[i] = "," /\ ~inQuotes
         THEN parseCsvFrom(line, i + 1, Append(fields, currentField), <<>>, inQuotes)
    ELSE parseCsvFrom(line, i + 1, fields, Append(currentField, line[i]), inQuotes)

parseCsvLine(line) == parseCsvFrom(line, 1, <<>>, <<>>, FALSE)

\* header.indexOf(column), counted from 1; 0 when the column is missing
indexOf(header, column) ==
    IF \E i \in DOMAIN header : header[i] = column
    THEN CHOOSE i \in DOMAIN header :
            header[i] = column /\ \A j \in 1..(i - 1) : header[j] # column
    ELSE 0

\* fields[index]?.trim() || ''
fieldAt(fields, index) ==
    IF index \in DOMAIN fields THEN trim(fields[index]) ELSE <<>>

\* csvData.split('\n').filter(line => line.trim())
csvLines(csvData) ==
    LET filled(line) == trim(line) # <<>> IN SelectSeq(split(csvData, "\n"), filled)

\* tagsStr ? tagsStr.split(',').map(t => t.trim()).filter(t => t) : []
csvTags(tagsStr) ==
    LET parts == split(tagsStr, ",")
        filled(t) == t # <<>>
    IN IF tagsStr = <<>> THEN <<>>
       ELSE SelectSeq([i \in DOMAIN parts |-> trim(parts[i])], filled)

\* the loop over the data rows of a CSV
RECURSIVE importCsvRows(_, _, _, _, _, _)
importCsvRows(acc, userId, rows, nameIndex, urlIndex, tagsIndex) ==
    IF rows = <<>> THEN acc
    ELSE LET fields == parseCsvLine(Head(rows))
             name == IF fieldAt(fields, nameIndex) = <<>> THEN Untitled
                     ELSE fieldAt(fields, nameIndex)
             url == fieldAt(fields, urlIndex)
             tagList == csvTags(fieldAt(fields, tagsIndex))
             next == IF Len(fields) < 2 THEN [acc EXCEPT !.skipped = @ + 1]
                     ELSE mergeEntry(acc, userId, name, url, tagList, FALSE)
         IN importCsvRows(next, userId, Tail(rows), nameIndex, urlIndex, tagsIndex)

\* POST /api/import with csvData
ImportCsv(userId, csvData) ==
    LET lines == csvLines(csvData)
        header == [i \in DOMAIN parseCsvLine(lines[1]) |-> trim(parseCsvLine(lines[1])[i])]
        nameIndex == indexOf(header, <<"n", "a", "m", "e">>)
        urlIndex == indexOf(header, <<"u", "r", "l">>)
        tagsIndex == indexOf(header, <<"t", "a", "g", "s">>)
        done == importCsvRows(StartOfImport, userId, Tail(lines),
                              nameIndex, urlIndex, tagsIndex)
    IN /\ IF csvData = <<>> \/ Len(lines) < 2 \/ nameIndex = 0 \/ urlIndex = 0
          THEN /\ response' = [op |-> "IMPORT csv", status |-> 400]
               /\ UNCHANGED linkVars
          ELSE /\ SetLinkDb(done.db)
               /\ response' = [op |-> "IMPORT csv", status |-> 200, user |-> userId,
                               csvData |-> csvData, imported |-> done.imported,
                               updated |-> done.updated, skipped |-> done.skipped]
       /\ LinkFrame

----------------------------------------------------------------------------
(* The link store: one request at a time *)

MaxStoredLinks == 2   \* links ever created (ids are never reused)

uA == <<"http://", "a">>
uUpA == <<"http://", "A">>
uFtp == <<"ftp://", "a">>

\* one tag more than a link may have, and a tag one character too long
ManyTags == [i \in 1..(MaxTagsPerLink + 1) |-> NatToString(i)]
LongTag == [i \in 1..(MaxTagLength + 1) |-> "a"]

TagInputs == { <<>>, <<sUpA, sPad>> }

\* links arrays a client may send: entries that update and create, a url
\* given twice, fields missing, a url that is not http(s), no url
ImportArrays ==
    { <<[name |-> sAB, url |-> uA, tags |-> <<sAB, sA>>]>>,
      <<[name |-> sPad, url |-> <<" ">> \o uUpA],
        [url |-> uA, tags |-> <<<<" ">>, sA>>]>>,
      <<[name |-> sA, url |-> uUpA, tags |-> <<sA>>],
        [name |-> sAB, url |-> uUpA, tags |-> <<sAB>>]>>,
      <<[name |-> sA, url |-> uFtp, tags |-> <<sA>>],
        [name |-> sA, tags |-> <<sA>>]>>,
      <<>> }

CsvHeader == <<"n", "a", "m", "e", ",", "u", "r", "l", ",", "t", "a", "g", "s">>

\* lines.join('\n')
RECURSIVE joinLines(_)
joinLines(lines) ==
    IF Len(lines) <= 1 THEN Concat(lines)
    ELSE Head(lines) \o <<"\n">> \o joinLines(Tail(lines))

\* a file with three data rows, one with a single row, one with none and
\* one without the name column
CsvInputs ==
    { joinLines(<<CsvHeader,
                  <<"a", "b", ",">> \o uA \o <<",", "\"", "a", ",", " ", "a", "b", "\"">>,
                  <<",">> \o uFtp \o <<",", "a">>,
                  <<"a">>>>),
      joinLines(<<CsvHeader, <<"A", ",">> \o uUpA>>),
      joinLines(<<CsvHeader, <<" ">>>>),
      joinLines(<<<<"u", "r", "l">>, uA>>) }

LinksInit == StoreInit /\ EngineIdle /\ RestInit

\* user 1 saves links and imports; user 2 owns a link with the same url
\* and tag
LinksNext ==
    \/ \E url \in {uA, uUpA}, t \in TagInputs :
          /\ nextLinkId <= MaxStoredLinks
          /\ PostLink(1, sA, url, t)
    \/ /\ nextLinkId <= MaxStoredLinks
       /\ PostLink(2, sA, uA, <<sA>>)
    \/ \E entries \in ImportArrays :
          /\ ImportLinks(1, entries)
          /\ nextLinkId' <= MaxStoredLinks + 1
    \/ \E csvData \in CsvInputs :
          /\ ImportCsv(1, csvData)
          /\ nextLinkId' <= MaxStoredLinks + 1

SpecLinks == LinksInit /\ [][LinksNext]_vars

\* links arrays with a tag that is a number, in front of, between and
\* after tags that are strings
ThrowingArrays ==
    { <<[name |-> sA, url |-> uA, tags |-> <<sA, NotAString, sAB>>]>>,
      <<[name |-> sAB, url |-> uUpA, tags |-> <<NotAString>>],
        [name |-> sA, url |-> uA, tags |-> <<sAB>>]>> }

\* user 1 saves links and imports arrays and CSV texts, some with entries
\* that fail after the link row was written
AccountingNext ==
    \/ \E url \in {uA, uUpA}, t \in TagInputs :
          /\ nextLinkId <= MaxStoredLinks
          /\ PostLink(1, sA, url, t)
    \/ \E entries \in ImportArrays \cup ThrowingArrays :
          /\ ImportLinks(1, entries)
          /\ nextLinkId' <= MaxStoredLinks + 1
    \/ \E csvData \in CsvInputs :
          /\ ImportCsv(1, csvData)
          /\ nextLinkId' <= MaxStoredLinks + 1

SpecAccounting == LinksInit /\ [][AccountingNext]_vars

\* the tag limits: one link, tag lists at and over the limits
LimitTagInputs ==
    { <<sA>>, [i \in 1..MaxTagsPerLink |-> NatToString(i)], ManyTags,
      <<LongTag>>, <<<<" ">>, sPad>> }

LimitCsv ==
    joinLines(<<CsvHeader, <<"a", ",">> \o uA \o <<",", "\"", "a", ",", "b", "\"">>>>)

TagLimitsNext ==
    \/ \E t \in LimitTagInputs :
          /\ nextLinkId <= MaxStoredLinks
          /\ PostLink(1, sA, uA, t)
    \/ \E t \in LimitTagInputs : PutLink(1, uA, sA, uA, t)
    \/ \E t \in LimitTagInputs :
          /\ ImportLinks(1, <<[name |-> sA, url |-> uA, tags |-> t]>>)
          /\ nextLinkId' <= MaxStoredLinks + 1
    \/ /\ ImportCsv(1, LimitCsv)
       /\ nextLinkId' <= MaxStoredLinks + 1

SpecTagLimits == LinksInit /\ [][TagLimitsNext]_vars

----------------------------------------------------------------------------
(* Configuration, and the Tabinator file of GET /api/export and            *)
(* POST /api/import.  A user_config row is [user_id, warning_tabs_open,    *)
(* max_tabs_open]; the timestamps of rows and of the file are left out.    *)

DefaultWarningTabs == 20
DefaultMaxTabs == 50
TabsLimit == 1000

\* INSERT OR REPLACE INTO user_config (user_id, warning_tabs_open, max_tabs_open)
replaceConfig(table, userId, warningTabs, maxTabs) ==
    {c \in table : c.user_id # userId}
       \cup {[user_id |-> userId, warning_tabs_open |-> warningTabs,
              max_tabs_open |-> maxTabs]}

\* PUT /api/auth/config
PutConfig(userId, warningTabs, maxTabs) ==
    /\ IF \/ warningTabs < 1 \/ warningTabs > TabsLimit
          \/ maxTabs < 0 \/ maxTabs > TabsLimit
          \/ (maxTabs > 0 /\ warningTabs > maxTabs)
       THEN /\ response' = [op |-> "PUT config", status |-> 400]
            /\ UNCHANGED user_config
       ELSE /\ user_config' = replaceConfig(user_config, userId, warningTabs, maxTabs)
            /\ response' = [op |-> "PUT config", status |-> 200, user |-> userId,
                            warning_tabs_open |-> warningTabs,
                            max_tabs_open |-> maxTabs]
    /\ UNCHANGED <<groups, nextGroupId, group_rules, engineVars, linkVars, users,
                   clientVars>>

\* the byte order of the characters that occur in link names
CodeOrder == <<" ", "A", "U", "a", "b", "d", "e", "i", "l", "n", "t">>
CodeOf(c) == CHOOSE i \in DOMAIN CodeOrder : CodeOrder[i] = c

\* a <= b in the BINARY collation
RECURSIVE nameLeq(_, _)
nameLeq(a, b) ==
    IF a = <<>> THEN TRUE
    ELSE IF b = <<>> THEN FALSE
    ELSE IF Head(a) = Head(b) THEN nameLeq(Tail(a), Tail(b))
    ELSE CodeOf(Head(a)) < CodeOf(Head(b))

\* ORDER BY l.name (rows of one name in id order)
RECURSIVE orderLinks(_)
orderLinks(rows) ==
    IF rows = {} THEN <<>>
    ELSE LET first == CHOOSE r \in rows :
                         \A o \in rows :
                            /\ nameLeq(r.name, o.name)
                            /\ (o.name = r.name => r.id <= o.id)
         IN <<first>> \o orderLinks(rows \ {first})

\* names.join(',')
RECURSIVE joinCommas(_)
joinCommas(names) ==
    IF Len(names) <= 1 THEN Concat(names)
    ELSE Head(names) \o <<",">> \o joinCommas(Tail(names))

\* GROUP_CONCAT(t.name) of a link, the tags taken in id order; NULL when the
\* link has none, and then link.tags ? link.tags.split(',') : []
exportedTags(linkId) ==
    LET rows == byId({t \in tags : [link_id |-> linkId, tag_id |-> t.id] \in link_tags})
    IN IF rows = <<>> THEN <<>>
       ELSE split(joinCommas([i \in DOMAIN rows |-> rows[i].name]), ",")

\* formattedLinks of GET /api/export
formattedLinks(userId) ==
    LET rows == orderLinks({l \in links : l.user_id = userId})
    IN [i \in DOMAIN rows |->
          [name |-> rows[i].name, url |-> rows[i].url, tags |-> exportedTags(rows[i].id)]]

\* formattedGroups of GET /api/export: name, include, exclude
exportedGroups(userId) ==
    LET gs == selectGroups(userId)
    IN [i \in DOMAIN gs |->
          LET a == AssembleForExport(selectRules(gs[i].id))
          IN [name |-> gs[i].name, include |-> a.include, exclude |-> a.exclude]]

\* config ? {...} : { warning_tabs_open: 20, max_tabs_open: 50 }
exportedConfig(userId) ==
    LET rows == {c \in user_config : c.user_id = userId}
    IN IF rows = {}
       THEN [warning_tabs_open |-> DefaultWarningTabs, max_tabs_open |-> DefaultMaxTabs]
       ELSE LET c == CHOOSE c \in rows : TRUE
            IN [warning_tabs_open |-> c.warning_tabs_open,
                max_tabs_open |-> c.max_tabs_open]

tabinatorData(userId) ==
    [version |-> "1.0", config |-> exportedConfig(userId),
     groups |-> exportedGroups(userId), links |-> formattedLinks(userId)]

\* GET /api/export?format=tabinator; the client keeps the file
ExportTabinator(userId) ==
    /\ exported' = tabinatorData(userId)
    /\ response' = [op |-> "EXPORT", status |-> 200, user |-> userId]
    /\ UNCHANGED <<groups, nextGroupId, group_rules, engineVars, linkVars,
                   user_config, users, requests, extVars>>

FullDb ==
    [groups |-> groups, nextGroupId |-> nextGroupId, group_rules |-> group_rules,
     links |-> links, nextLinkId |-> nextLinkId, tags |-> tags,
     nextTagId |-> nextTagId, link_tags |-> link_tags, user_config |-> user_config]

\* if (tabinatorData.config) INSERT OR REPLACE with ?? 20 and ?? 50
importConfig(db, userId, data) ==
    IF "config" \notin DOMAIN data THEN db
    ELSE LET c == data.config
             warningTabs == IF "warning_tabs_open" \in DOMAIN c THEN c.warning_tabs_open
                            ELSE DefaultWarningTabs
             maxTabs == IF "max_tabs_open" \in DOMAIN c THEN c.max_tabs_open
                        ELSE DefaultMaxTabs
         IN [db EXCEPT !.user_config = replaceConfig(@, userId, warningTabs, maxTabs)]

\* the rules of a group that exists are kept and the file's rules added
importGroupKeepingRules(db, userId, group) ==
    LET existingGroup == {g \in db.groups : g.user_id = userId /\ g.name = group.name}
        groupId == IF existingGroup # {} THEN (CHOOSE g \in existingGroup : TRUE).id
                   ELSE db.nextGroupId
        base == IF existingGroup # {} THEN db
                ELSE [db EXCEPT
                        !.groups = @ \cup {[id |-> groupId, user_id |-> userId,
                                            name |-> group.name]},
                        !.nextGroupId = @ + 1]
    IN [base EXCEPT !.group_rules = @ \o insertedRows(groupId, group.include,
                                                       group.exclude)]

\* one group of the file: update the group of that name and delete its
\* rules, or create it; then insert the rules block by block
importGroup(db, userId, group) ==
    LET existingGroup == {g \in db.groups : g.user_id = userId /\ g.name = group.name}
        groupId == IF existingGroup # {} THEN (CHOOSE g \in existingGroup : TRUE).id
                   ELSE db.nextGroupId
        include == IF "include" \in DOMAIN group THEN group.include ELSE <<>>
        exclude == IF "exclude" \in DOMAIN group THEN group.exclude ELSE <<>>
        base == IF existingGroup # {}
                THEN [db EXCEPT !.group_rules = deleteRules(@, groupId)]
                ELSE [db EXCEPT
                        !.groups = @ \cup {[id |-> groupId, user_id |-> userId,
                                            name |-> group.name]},
                        !.nextGroupId = @ + 1]
    IN [base EXCEPT !.group_rules = @ \o insertedRows(groupId, include, exclude)]

RECURSIVE importGroups(_, _, _)
importGroups(db, userId, groupSeq) ==
    IF groupSeq = <<>> THEN db
    ELSE importGroups(importGroup(db, userId, Head(groupSeq)), userId, Tail(groupSeq))

\* the Tabinator branch of POST /api/import: config, groups, links
importTabinator(db, userId, data) ==
    LET withConfig == importConfig(db, userId, data)
        withGroups == IF "groups" \in DOMAIN data
                      THEN importGroups(withConfig, userId, data.groups)
                      ELSE withConfig
        start == [db |-> withGroups, imported |-> 0, updated |-> 0, skipped |-> 0]
    IN IF "links" \in DOMAIN data
       THEN importLinksArray(start, userId, data.links)
       ELSE start

\* POST /api/import {format: 'tabinator', tabinatorData}
ImportTabinatorData(userId, data) ==
    LET done == importTabinator(FullDb, userId, data)
    IN /\ groups' = done.db.groups
       /\ nextGroupId' = done.db.nextGroupId
       /\ group_rules' = done.db.group_rules
       /\ SetLinkDb(done.db)
       /\ user_config' = done.db.user_config
       /\ response' = [op |-> "IMPORT tabinator", status |-> 200, user |-> userId,
                       imported |-> done.imported, updated |-> done.updated,
                       skipped |-> done.skipped]
       /\ UNCHANGED <<engineVars, requests, exported, users, extVars>>

\* the client sends the file it kept
ImportTabinator(userId) ==
    /\ exported # NoFile
    /\ ImportTabinatorData(userId, exported)

\* the groups a user saves before and after taking the backup: blocks of
\* one and of several fields, an empty block in front, values repeated
BackupBodies ==
    { [name |-> "g",
       include |-> <<[tags |-> <<sA, sAB>>], [names |-> <<sUpA>>, urls |-> <<sAB>>]>>,
       exclude |-> <<[names |-> <<sAB>>], [tags |-> <<sAB>>]>>],
      [name |-> "h",
       include |-> <<EmptyBlock, [urls |-> <<sPad, sPad>>], [tags |-> <<sA>>]>>,
       exclude |-> <<>>] }

\* every registered user has a user_config row
BackupInit ==
    /\ StoreInit /\ EngineIdle
    /\ links = {} /\ nextLinkId = 1
    /\ tags = {} /\ nextTagId = 1 /\ link_tags = {}
    /\ user_config = {[user_id |-> u, warning_tabs_open |-> DefaultWarningTabs,
                       max_tabs_open |-> DefaultMaxTabs] : u \in Users}
    /\ requests = <<>>
    /\ exported = NoFile
    /\ ExtIdle
    /\ users = RegisteredUsers

\* user 1 saves groups, a link and the configuration and exports; the file
\* is imported into the same account or into the account of user 2
BackupNext ==
    \/ \E b \in BackupBodies : PostGroup(1, b.name, b.include, b.exclude)
    \/ \E b \in BackupBodies : PutGroup(1, 1, "g", b.include, <<>>)
    \/ /\ nextLinkId <= MaxStoredLinks
       /\ PostLink(1, sAB, uA, <<sA, sAB>>)
    \/ \E w \in {0, 10} : PutConfig(1, w, DefaultWarningTabs)
    \/ ExportTabinator(1)
    \/ \E u \in Users :
          /\ ImportTabinator(u)
          /\ nextGroupId' <= 2 * MaxGroups + 1
          /\ nextLinkId' <= MaxStoredLinks + 1

SpecBackup == BackupInit /\ [][BackupNext]_vars

\* configuration values a client sends to PUT /api/auth/config
WarningInputs == {0, 1, 10, 60, 1000, 1001}
MaxInputs == {0 - 1, 0, 5, 50, 1001}

\* files written by hand: a config of one or two properties, in and out of
\* the range the configuration page accepts
ConfigFiles ==
    { [version |-> "1.0", config |-> [warning_tabs_open |-> 10, max_tabs_open |-> 50]],
      [version |-> "1.0", config |-> [warning_tabs_open |-> 0, max_tabs_open |-> 50]],
      [version |-> "1.0", config |-> [warning_tabs_open |-> 60]],
      [version |-> "1.0", config |-> [max_tabs_open |-> 1001]],
      [version |-> "1.0", links |-> <<>>] }

\* both users change their configuration and import files
ConfigNext ==
    \/ \E u \in Users, w \in WarningInputs, m \in MaxInputs : PutConfig(u, w, m)
    \/ \E u \in Users, data \in ConfigFiles : ImportTabinatorData(u, data)

SpecConfig == BackupInit /\ [][ConfigNext]_vars

\* a file with a group name, a url and a tag name that user 2 also has
SharedNamesFile ==
    [version |-> "1.0",
     config |-> [warning_tabs_open |-> 10, max_tabs_open |-> 50],
     groups |-> <<[name |-> "g", include |-> <<[tags |-> <<sA>>]>>,
                   exclude |-> <<>>]>>,
     links |-> <<[name |-> sAB, url |-> uA, tags |-> <<sA>>]>>]

\* the requests of user 1: every id of a group, whoever owns it, and the
\* names, urls and tags user 2 uses
RequestsOfUser1 ==
    \/ \E b \in StoreBodies : PostGroup(1, "g", b.include, b.exclude)
    \/ \E id \in 1..MaxGroups, b \in StoreBodies :
          PutGroup(1, id, "g", b.include, b.exclude)
    \/ \E id \in 1..MaxGroups : DeleteGroup(1, id)
    \/ GetGroups(1)
    \/ /\ nextLinkId <= MaxStoredLinks
       /\ PostLink(1, sAB, uA, <<sA>>)
    \/ PutLink(1, uA, sA, uA, <<sAB>>)
    \/ DeleteLink(1, uA)
    \/ PutConfig(1, 10, 0)
    \/ /\ ImportTabinatorData(1, SharedNamesFile)
       /\ nextGroupId' <= MaxGroups + 1
       /\ nextLinkId' <= MaxStoredLinks + 1

\* user 2 stores a group, a link with a tag and a configuration
RequestsOfUser2 ==
    \/ \E b \in StoreBodies : PostGroup(2, "g", b.include, b.exclude)
    \/ /\ nextLinkId <= MaxStoredLinks
       /\ PostLink(2, sA, uA, <<sA>>)
    \/ PutConfig(2, 1, 5)

IsolationNext == RequestsOfUser1 \/ RequestsOfUser2

SpecIsolation == BackupInit /\ [][IsolationNext]_vars

----------------------------------------------------------------------------
(* scripts/migrate-yaml-to-sqlite.js: links.yaml into a new database       *)

\* ALTER TABLE group_rules ADD COLUMN block_index INTEGER NOT NULL DEFAULT 0
BlockIndexDefault == 0

adminName == <<"a", "d", "m", "i", "n">>

\* INSERT OR IGNORE INTO users ('admin', 'admin@tabinator.local', hash)
adminId ==
    IF \E u \in users : u.username = adminName
    THEN (CHOOSE u \in users : u.username = adminName).id
    ELSE Cardinality(users) + 1

adminRow ==
    [id |-> adminId, username |-> adminName,
     email |-> adminName \o <<"@", "t", "a", "b", "i", "n", "a", "t", "o", "r",
                              ".", "l", "o", "c", "a", "l">>,
     password_hash |-> bcryptHash(adminName)]

\* if (data.config && data.config.max_tabs_open) INSERT OR REPLACE INTO
\* user_config (user_id, max_tabs_open); the other column takes its default
migrateConfig(db, userId, data) ==
    IF "config" \in DOMAIN data /\ "max_tabs_open" \in DOMAIN data.config
       /\ data.config.max_tabs_open # 0
    THEN [db EXCEPT !.user_config =
            replaceConfig(@, userId, DefaultWarningTabs, data.config.max_tabs_open)]
    ELSE db

\* the tags of a migrated link: found or created by the name as written
RECURSIVE migrateTags(_, _, _, _)
migrateTags(db, userId, linkId, tagNames) ==
    IF tagNames = <<>> THEN db
    ELSE LET tagName == Head(tagNames)
             found == {t \in db.tags : t.user_id = userId /\ t.name = tagName}
             tagId == IF found # {} THEN (CHOOSE t \in found : TRUE).id
                      ELSE db.nextTagId
             next == [db EXCEPT
                        !.tags = IF found # {} THEN @
                                 ELSE @ \cup {[id |-> tagId, user_id |-> userId,
                                               name |-> tagName]},
                        !.nextTagId = IF found # {} THEN @ ELSE @ + 1,
                        !.link_tags = @ \cup {[link_id |-> linkId, tag_id |-> tagId]}]
         IN migrateTags(next, userId, linkId, Tail(tagNames))

\* INSERT INTO links (user_id, link.name || 'Untitled', link.url || '')
RECURSIVE migrateLinks(_, _, _)
migrateLinks(db, userId, linkSeq) ==
    IF linkSeq = <<>> THEN db
    ELSE LET link == Head(linkSeq)
             linkId == db.nextLinkId
             name == IF fieldOrEmpty(link, "name") = <<>> THEN Untitled ELSE link.name
             inserted == [db EXCEPT
                            !.links = @ \cup {[id |-> linkId, user_id |-> userId,
                                               name |-> name,
                                               url |-> fieldOrEmpty(link, "url")]},
                            !.nextLinkId = @ + 1]
         IN migrateLinks(migrateTags(inserted, userId, linkId,
                                     fieldOrEmpty(link, "tags")),
                         userId, Tail(linkSeq))

\* INSERT INTO group_rules (group_id, rule_type, match_type, match_value):
\* the statement names no block_index, every row takes the default
migratedRows(groupId, ruleType, blockSeq) ==
    Concat([i \in DOMAIN blockSeq |->
              blockRows(groupId, ruleType, blockSeq[i], BlockIndexDefault)])

\* for (const group of data.groups): the group row, then its include and
\* its exclude rules
RECURSIVE migrateGroups(_, _, _)
migrateGroups(db, userId, groupSeq) ==
    IF groupSeq = <<>> THEN db
    ELSE LET group == Head(groupSeq)
             groupId == db.nextGroupId
             include == IF "include" \in DOMAIN group THEN group.include ELSE <<>>
             exclude == IF "exclude" \in DOMAIN group THEN group.exclude ELSE <<>>
             next == IF "name" \notin DOMAIN group THEN db
                     ELSE [db EXCEPT
                             !.groups = @ \cup {[id |-> groupId, user_id |-> userId,
                                                 name |-> group.name]},
                             !.nextGroupId = @ + 1,
                             !.group_rules = @ \o migratedRows(groupId, "include", include)
                                               \o migratedRows(groupId, "exclude", exclude)]
         IN migrateGroups(next, userId, Tail(groupSeq))

\* npm run migrate on a database that holds nothing yet; data is the file
\* the script read
Migrate(data) ==
    LET withConfig == migrateConfig(FullDb, adminId, data)
        withLinks == IF "links" \in DOMAIN data
                     THEN migrateLinks(withConfig, adminId, data.links)
                     ELSE withConfig
        done == IF "groups" \in DOMAIN data
                THEN migrateGroups(withLinks, adminId, data.groups)
                ELSE withLinks
    IN /\ users = {} /\ groups = {} /\ links = {}
       /\ users' = {adminRow}
       /\ groups' = done.groups
       /\ nextGroupId' = done.nextGroupId
       /\ group_rules' = done.group_rules
       /\ SetLinkDb(done)
       /\ user_config' = done.user_config
       /\ response' = [op |-> "MIGRATE", status |-> 0, data |-> data]
       /\ UNCHANGED <<engineVars, requests, exported, extVars>>

\* links.yaml files: groups of one block and of several, a block of several
\* fields, a group without exclude, a group without a name
YamlFiles ==
    { [config |-> [max_tabs_open |-> 30],
       links |-> <<[name |-> sA, url |-> uA, tags |-> <<sA, sAB>>]>>,
       groups |-> <<[name |-> "g", include |-> <<[tags |-> <<sA>>]>>,
                     exclude |-> <<[names |-> <<sUpA>>]>>]>>],
      [links |-> <<[url |-> uA], [name |-> sAB, url |-> uUpA, tags |-> <<sA>>]>>,
       groups |-> <<[name |-> "g",
                     include |-> <<[tags |-> <<sA>>], [names |-> <<sUpA>>]>>,
                     exclude |-> <<>>],
                    [name |-> "h", include |-> <<[tags |-> <<sA, sAB>>,
                                                 urls |-> <<sAB>>]>>]>>],
      [groups |-> <<[include |-> <<[tags |-> <<sA>>]>>],
                    [name |-> "h", include |-> <<>>,
                     exclude |-> <<[tags |-> <<sAB>>], [urls |-> <<sA>>]>>]>>],
      [links |-> <<>>] }

MigrationInit ==
    /\ StoreInit /\ EngineIdle
    /\ links = {} /\ nextLinkId = 1
    /\ tags = {} /\ nextTagId = 1 /\ link_tags = {}
    /\ user_config = {}
    /\ requests = <<>>
    /\ exported = NoFile
    /\ ExtIdle
    /\ users = {}

\* the migration, then the admin reads and edits the groups
MigrationNext ==
    \/ \E data \in YamlFiles : Migrate(data)
    \/ /\ users # {}
       /\ \/ GetGroups(adminId)
          \/ \E n \in Names, b \in StoreBodies :
                PostGroup(adminId, n, b.include, b.exclude)
          \/ \E id \in 1..MaxGroups, n \in Names, b \in StoreBodies :
                PutGroup(adminId, id, n, b.include, b.exclude)
          \/ \E id \in 1..MaxGroups : DeleteGroup(adminId, id)

SpecMigration == MigrationInit /\ [][MigrationNext]_vars

----------------------------------------------------------------------------
(* Requests on links in flight together: every awaited statement on the    *)
(* links table is a step of its own.  The statements of the tag loop touch *)
(* no row of links and are taken as one step.                              *)

\* UNIQUE(user_id, url) of table links, left out
uniqueLinkUrlUnenforced(table, row) == TRUE

\* UNIQUE(user_id, url) of table links: may row be written next to the others
uniqueLinkUrl(table, row) ==
    ~\E l \in table : l.id # row.id /\ l.user_id = row.user_id /\ l.url = row.url

RaceFrame == UNCHANGED <<groups, nextGroupId, group_rules, engineVars,
                         user_config, users, exported, extVars>>

StartLinkRequest(slot, req) ==
    /\ requests[slot] = Idle
    /\ Continue(slot, req)
    /\ UNCHANGED linkVars
    /\ RaceFrame

\* POST: SELECT id FROM links WHERE user_id = ? AND url = ?
LinkPostCheck(slot) ==
    LET r == requests[slot]
    IN /\ r.op = "POST link" /\ r.pc = "check"
       /\ IF \E l \in links : l.user_id = r.user /\ l.url = r.url
          THEN Finish(slot, [op |-> "POST link", status |-> 409])
          ELSE Continue(slot, [r EXCEPT !.pc = "insert"])
       /\ UNCHANGED linkVars
       /\ RaceFrame

\* POST: INSERT INTO links (user_id, name, url)
LinkPostInsert(slot) ==
    LET r == requests[slot]
        row == [id |-> nextLinkId, user_id |-> r.user, name |-> r.name, url |-> r.url]
    IN /\ r.op = "POST link" /\ r.pc = "insert"
       /\ IF uniqueLinkUrl(links, row)
          THEN /\ nextLinkId <= MaxStoredLinks + 1
               /\ links' = links \cup {row}
               /\ nextLinkId' = nextLinkId + 1
               /\ Continue(slot, [r EXCEPT !.pc = "tags", !.id = row.id])
          ELSE /\ Finish(slot, [op |-> "POST link", status |-> 500])
               /\ UNCHANGED <<links, nextLinkId>>
       /\ UNCHANGED <<tags, nextTagId, link_tags>>
       /\ RaceFrame

\* PUT: SELECT id FROM links WHERE user_id = ? AND url = ?  (originalUrl)
LinkPutFind(slot) ==
    LET r == requests[slot]
        found == {l \in links : l.user_id = r.user /\ l.url = r.originalUrl}
    IN /\ r.op = "PUT link" /\ r.pc = "find"
       /\ IF found = {}
          THEN Finish(slot, [op |-> "PUT link", status |-> 404])
          ELSE Continue(slot, [r EXCEPT !.pc = "conflict",
                                         !.id = (CHOOSE l \in found : TRUE).id])
       /\ UNCHANGED linkVars
       /\ RaceFrame

\* PUT: if the url changes, SELECT id FROM links WHERE user_id = ? AND
\* url = ? AND id != ?
LinkPutConflict(slot) ==
    LET r == requests[slot]
    IN /\ r.op = "PUT link" /\ r.pc = "conflict"
       /\ IF /\ r.url # r.originalUrl
             /\ \E l \in links : l.user_id = r.user /\ l.url = r.url /\ l.id # r.id
          THEN Finish(slot, [op |-> "PUT link", status |-> 409, user |-> r.user,
                             url |-> r.url])
          ELSE Continue(slot, [r EXCEPT !.pc = "update"])
       /\ UNCHANGED linkVars
       /\ RaceFrame

\* PUT: UPDATE links SET name = ?, url = ? WHERE id = ?
LinkPutUpdate(slot) ==
    LET r == requests[slot]
        row == [id |-> r.id, user_id |-> r.user, name |-> r.name, url |-> r.url]
    IN /\ r.op = "PUT link" /\ r.pc = "update"
       /\ IF uniqueLinkUrl(links, row)
          THEN /\ links' = {IF l.id = r.id THEN row ELSE l : l \in links}
               /\ Continue(slot, [r EXCEPT !.pc = "cleartags"])
          ELSE /\ Finish(slot, [op |-> "PUT link", status |-> 500])
               /\ UNCHANGED links
       /\ UNCHANGED <<nextLinkId, tags, nextTagId, link_tags>>
       /\ RaceFrame

\* PUT and import: DELETE FROM link_tags WHERE link_id = ?
LinkClearTags(slot) ==
    LET r == requests[slot]
    IN /\ r.op \in {"PUT link", "IMPORT links"} /\ r.pc = "cleartags"
       /\ link_tags' = clearTags(link_tags, r.id)
       /\ Continue(slot, [r EXCEPT !.pc = "tags"])
       /\ UNCHANGED <<links, nextLinkId, tags, nextTagId>>
       /\ RaceFrame

\* import, one entry: SELECT id FROM links WHERE user_id = ? AND url = ?
LinkImportCheck(slot) ==
    LET r == requests[slot]
        existing == {l \in links : l.user_id = r.user /\ l.url = r.url}
    IN /\ r.op = "IMPORT links" /\ r.pc = "check"
       /\ IF existing # {}
          THEN Continue(slot, [r EXCEPT !.pc = "rename",
                                         !.id = (CHOOSE l \in existing : TRUE).id])
          ELSE Continue(slot, [r EXCEPT !.pc = "insert"])
       /\ UNCHANGED linkVars
       /\ RaceFrame

\* import: UPDATE links SET name = ? WHERE id = ?
LinkImportRename(slot) ==
    LET r == requests[slot]
    IN /\ r.op = "IMPORT links" /\ r.pc = "rename"
       /\ links' = {IF l.id = r.id THEN [l EXCEPT !.name = r.name] ELSE l : l \in links}
       /\ Continue(slot, [r EXCEPT !.pc = "cleartags", !.updated = 1])
       /\ UNCHANGED <<nextLinkId, tags, nextTagId, link_tags>>
       /\ RaceFrame

\* import: INSERT INTO links (user_id, name, url); a failure is caught and
\* the entry counted as skipped
LinkImportInsert(slot) ==
    LET r == requests[slot]
        row == [id |-> nextLinkId, user_id |-> r.user, name |-> r.name, url |-> r.url]
    IN /\ r.op = "IMPORT links" /\ r.pc = "insert"
       /\ IF uniqueLinkUrl(links, row)
          THEN /\ nextLinkId <= MaxStoredLinks + 1
               /\ links' = links \cup {row}
               /\ nextLinkId' = nextLinkId + 1
               /\ Continue(slot, [r EXCEPT !.pc = "tags", !.id = row.id,
                                           !.imported = 1])
          ELSE /\ Finish(slot, [op |-> "IMPORT links", status |-> 200, user |-> r.user,
                                imported |-> 0, updated |-> 0, skipped |-> 1])
               /\ UNCHANGED <<links, nextLinkId>>
       /\ UNCHANGED <<tags, nextTagId, link_tags>>
       /\ RaceFrame

\* the tag loop, then the response
LinkAddTags(slot) ==
    LET r == requests[slot]
        done == addTags(LinkDb, r.user, r.id, r.tags)
    IN /\ r.op \in {"POST link", "PUT link", "IMPORT links"} /\ r.pc = "tags"
       /\ tags' = done.tags
       /\ nextTagId' = done.nextTagId
       /\ link_tags' = done.link_tags
       /\ Finish(slot,
                 IF r.op = "POST link"
                 THEN [op |-> "POST link", status |-> 201, user |-> r.user, url |-> r.url]
                 ELSE IF r.op = "PUT link"
                 THEN [op |-> "PUT link", status |-> 200, user |-> r.user, url |-> r.url]
                 ELSE [op |-> "IMPORT links", status |-> 200, user |-> r.user,
                       imported |-> r.imported, updated |-> r.updated,
                       skipped |-> 0])
       /\ UNCHANGED <<links, nextLinkId>>
       /\ RaceFrame

RaceUrls == {uA, uUpA}

\* validated requests of user 1 on the two urls
LinkRequests ==
    {[op |-> "POST link", pc |-> "check", user |-> 1, name |-> sA, url |-> u,
      tags |-> <<sA>>, id |-> 0] : u \in RaceUrls}
    \cup {[op |-> "PUT link", pc |-> "find", user |-> 1, originalUrl |-> o,
           name |-> sAB, url |-> u, tags |-> <<>>, id |-> 0]
            : o \in RaceUrls, u \in RaceUrls}
    \cup {[op |-> "IMPORT links", pc |-> "check", user |-> 1, name |-> sUpA,
           url |-> u, tags |-> <<sAB>>, id |-> 0, imported |-> 0, updated |-> 0]
            : u \in RaceUrls}

\* link 1 of user 1 is stored before the requests arrive
LinkRaceInit ==
    /\ StoreInit /\ EngineIdle
    /\ links = {[id |-> 1, user_id |-> 1, name |-> sA, url |-> uA]}
    /\ nextLinkId = 2
    /\ tags = {} /\ nextTagId = 1 /\ link_tags = {}
    /\ user_config = {}
    /\ requests = [slot \in Slots |-> Idle]
    /\ exported = NoFile
    /\ ExtIdle
    /\ users = RegisteredUsers

LinkRaceNext ==
    \E slot \in Slots :
        \/ \E req \in LinkRequests : StartLinkRequest(slot, req)
        \/ LinkPostCheck(slot) \/ LinkPostInsert(slot)
        \/ LinkPutFind(slot) \/ LinkPutConflict(slot) \/ LinkPutUpdate(slot)
        \/ LinkClearTags(slot)
        \/ LinkImportCheck(slot) \/ LinkImportRename(slot) \/ LinkImportInsert(slot)
        \/ LinkAddTags(slot)

SpecLinkRace == LinkRaceInit /\ [][LinkRaceNext]_vars

----------------------------------------------------------------------------
(* Accounts, and the routes behind requireAuth.  A request carries the     *)
(* session express-session attached to it, if any.                         *)

MinPasswordLength == 8

LowerCase == {"a", "b", "c", "d", "e", "f", "g", "h", "i", "j", "k", "l", "m",
              "n", "o", "p", "q", "r", "s", "t", "u", "v", "w", "x", "y", "z"}
UpperCase == {"A", "B", "C", "D", "E", "F", "G", "H", "I", "J", "K", "L", "M",
              "N", "O", "P", "Q", "R", "S", "T", "U", "V", "W", "X", "Y", "Z"}
Digits == Range(DigitChars)

\* changePasswordValidation
passwordChangeValid(currentPassword, newPassword, confirmPassword) ==
    /\ currentPassword # <<>>
    /\ Len(newPassword) >= MinPasswordLength
    /\ \E i \in DOMAIN newPassword : newPassword[i] \in LowerCase
    /\ \E i \in DOMAIN newPassword : newPassword[i] \in UpperCase
    /\ \E i \in DOMAIN newPassword : newPassword[i] \in Digits
    /\ confirmPassword = newPassword

AccountFrame == UNCHANGED <<groups, nextGroupId, group_rules, engineVars, linkVars,
                            user_config, clientVars>>

\* POST /api/auth/change-password
ChangePassword(userId, currentPassword, newPassword, confirmPassword) ==
    LET found == {u \in users : u.id = userId}
        user == CHOOSE u \in found : TRUE
    IN /\ IF ~passwordChangeValid(currentPassword, newPassword, confirmPassword)
          THEN /\ response' = [op |-> "POST change-password", status |-> 400]
               /\ UNCHANGED users
          ELSE IF found = {}
          THEN /\ response' = [op |-> "POST change-password", status |-> 404]
               /\ UNCHANGED users
          ELSE IF ~bcryptCompare(currentPassword, user.password_hash)
          THEN /\ response' = [op |-> "POST change-password", status |-> 401,
                               user |-> userId]
               /\ UNCHANGED users
          ELSE /\ users' = {IF u.id = userId
                            THEN [u EXCEPT !.password_hash = bcryptHash(newPassword)]
                            ELSE u : u \in users}
               /\ response' = [op |-> "POST change-password", status |-> 200,
                               user |-> userId]
       /\ AccountFrame

\* GET /api/auth/profile
GetProfile(userId) ==
    LET found == {u \in users : u.id = userId}
        user == CHOOSE u \in found : TRUE
    IN /\ response' = IF found = {}
                      THEN [op |-> "GET profile", status |-> 404]
                      ELSE [op |-> "GET profile", status |-> 200,
                            user |-> [id |-> user.id, username |-> user.username,
                                      email |-> user.email],
                            config |-> exportedConfig(userId)]
       /\ UNCHANGED users
       /\ AccountFrame

\* /^[^\s@]+@[^\s@]+\.[^\s@]+$/.test(email)
emailMatches(email) ==
    /\ \A i \in DOMAIN email : email[i] \notin Whitespace
    /\ \E i \in DOMAIN email :
          /\ email[i] = "@" /\ i > 1
          /\ \A j \in DOMAIN email : email[j] = "@" => j = i
          /\ \E j \in DOMAIN email : j > i + 1 /\ j < Len(email) /\ email[j] = "."

\* PUT /api/auth/profile
PutProfile(userId, email) ==
    /\ IF email = <<>> \/ ~emailMatches(email)
       THEN /\ response' = [op |-> "PUT profile", status |-> 400]
            /\ UNCHANGED users
       ELSE IF \E u \in users : u.email = email /\ u.id # userId
       THEN /\ response' = [op |-> "PUT profile", status |-> 409]
            /\ UNCHANGED users
       ELSE /\ users' = {IF u.id = userId THEN [u EXCEPT !.email = email] ELSE u
                           : u \in users}
            /\ response' = [op |-> "PUT profile", status |-> 200, user |-> userId,
                            email |-> email]
    /\ AccountFrame

\* formattedLinks of GET /api/data: ORDER BY l.id
dataLinks(userId) ==
    LET rows == byId({l \in links : l.user_id = userId})
    IN [i \in DOMAIN rows |->
          [name |-> rows[i].name, url |-> rows[i].url, tags |-> exportedTags(rows[i].id)]]

\* formattedGroups of GET /api/data
dataGroups(userId) ==
    LET gs == selectGroups(userId)
    IN [i \in DOMAIN gs |->
          LET a == AssembleForData(selectRules(gs[i].id))
          IN [name |-> gs[i].name, include |-> a.include, exclude |-> a.exclude]]

\* GET /api/data
GetData(userId) ==
    /\ response' = [op |-> "GET data", status |-> 200, user |-> userId,
                    config |-> exportedConfig(userId),
                    groups |-> dataGroups(userId), links |-> dataLinks(userId)]
    /\ UNCHANGED <<groups, nextGroupId, group_rules, engineVars, restVars>>

\* a request always answered as if it carried a session userId
requireAuthAlways(req) == TRUE

\* if (req.session && req.session.userId) next(); else 401
requireAuth(req) ==
    /\ "session" \in DOMAIN req
    /\ "userId" \in DOMAIN req.session
    /\ req.session.userId # 0

\* req.userId, set from req.session.userId by requireAuth; 0 stands for
\* undefined, the id of no user
userIdOf(req) ==
    IF "session" \in DOMAIN req /\ "userId" \in DOMAIN req.session
    THEN req.session.userId ELSE 0

\* res.status(401).json({ error: 'Authentication required' })
Deny(route) ==
    /\ response' = [op |-> route, status |-> 401]
    /\ UNCHANGED <<groups, nextGroupId, group_rules, engineVars, restVars>>

\* router.<method>(path, requireAuth, ..., handler)
Guarded(req, route, handler) ==
    IF requireAuth(req) THEN handler ELSE Deny(route)

\* requests of a user, of a session nobody logged into and of a client
\* without a session
AuthRequests ==
    { [session |-> [userId |-> 1]], [session |-> [cookie |-> "c"]], [path |-> "/"] }

AuthBody == [include |-> <<[tags |-> <<sA>>]>>, exclude |-> <<[urls |-> <<sAB>>]>>]
AuthEntries == <<[name |-> sUpA, url |-> uA, tags |-> <<sAB>>]>>
AuthCsv == joinLines(<<CsvHeader, <<"a", ",">> \o uA \o <<",", "a">>>>)

\* the user saves one group and one link, edits and deletes them, exports
\* once when both are stored, and imports
GroupRoutes(req) ==
    \/ Guarded(req, "GET /api/groups", GetGroups(userIdOf(req)))
    \/ Guarded(req, "POST /api/groups",
               /\ nextGroupId = 1
               /\ PostGroup(userIdOf(req), "g", AuthBody.include, AuthBody.exclude))
    \/ Guarded(req, "PUT /api/groups/:id",
               PutGroup(userIdOf(req), 1, "h", <<>>, <<>>))
    \/ Guarded(req, "DELETE /api/groups/:id", DeleteGroup(userIdOf(req), 1))

LinkRoutes(req) ==
    \/ Guarded(req, "GET /api/data", GetData(userIdOf(req)))
    \/ Guarded(req, "POST /api/links",
               /\ nextLinkId = 1
               /\ PostLink(userIdOf(req), sA, uA, <<sA>>))
    \/ Guarded(req, "PUT /api/links", PutLink(userIdOf(req), uA, sAB, uA, <<>>))
    \/ Guarded(req, "DELETE /api/links", DeleteLink(userIdOf(req), uA))
    \/ Guarded(req, "GET /api/export",
               /\ exported = NoFile
               /\ group_rules # <<>> /\ link_tags # {}
               /\ ExportTabinator(userIdOf(req)))
    \/ Guarded(req, "POST /api/import",
               /\ \/ ImportLinks(userIdOf(req), AuthEntries)
                  \/ ImportCsv(userIdOf(req), AuthCsv)
                  \/ ImportTabinator(userIdOf(req))
               /\ nextLinkId' <= 2
               /\ nextGroupId' <= 2)

AccountRoutes(req) ==
    \/ Guarded(req, "GET /api/auth/profile", GetProfile(userIdOf(req)))
    \/ Guarded(req, "PUT /api/auth/profile",
               \E email \in {mailA, mailB, <<"a", "@", "b">>} :
                  PutProfile(userIdOf(req), email))
    \/ Guarded(req, "PUT /api/auth/config",
               PutConfig(userIdOf(req), 10, DefaultWarningTabs))
    \/ Guarded(req, "POST /api/auth/change-password",
               \E current \in {pwOld, pwNew} :
                  ChangePassword(userIdOf(req), current, pwOld, pwOld))

Route(req) == GroupRoutes(req) \/ LinkRoutes(req) \/ AccountRoutes(req)

AuthNext == \E req \in AuthRequests : Route(req)

SpecAuth == BackupInit /\ [][AuthNext]_vars

----------------------------------------------------------------------------
(* The assembler on its own: any list of flat rules, in any row order.     *)

FlatRule(ruleType, matchType, value, blockIndex) ==
    [rule_type |-> ruleType, match_type |-> matchType,
     match_value |-> value, block_index |-> blockIndex]

BlockIndices == {2, 10}

WellFormedRules ==
    { FlatRule(rt, mv[1], mv[2], bi) :
        rt \in RuleTypes,
        mv \in {<<"tags", sA>>, <<"tags", sAB>>, <<"names", sA>>, <<"urls", sAB>>},
        bi \in BlockIndices }

MalformedRules ==
    { FlatRule("other", "tags", sA, 2),
      FlatRule("include", "other", sA, 2),
      FlatRule("include", "tags", sA, 0 - 1) }

IsMalformed(rule) ==
    \/ rule.rule_type \notin RuleTypes
    \/ rule.match_type \notin MatchTypes
    \/ rule.block_index < 0

FlatRuleLists == SeqsUpTo(WellFormedRules \cup MalformedRules, MaxRules)

AsmInit ==
    /\ StoreInit
    /\ asmIn \in FlatRuleLists
    /\ asmOut = [include |-> <<>>, exclude |-> <<>>]
    /\ asmStatus = 0
    /\ asmPc = "idle"
    /\ evLinks = <<>>
    /\ evOut = <<>>
    /\ RestInit

AssembleGroups ==
    /\ asmPc = "idle"
    /\ asmOut' = Assemble(asmIn)
    /\ asmStatus' = 200
    /\ asmPc' = "groups"
    /\ UNCHANGED <<asmIn, evLinks, evOut>>
    /\ UNCHANGED storeVars
    /\ UNCHANGED restVars

AssembleData ==
    /\ asmPc = "idle"
    /\ asmOut' = AssembleForData(asmIn)
    /\ asmStatus' = 200
    /\ asmPc' = "data"
    /\ UNCHANGED <<asmIn, evLinks, evOut>>
    /\ UNCHANGED storeVars
    /\ UNCHANGED restVars

AssembleExport ==
    /\ asmPc = "idle"
    /\ asmOut' = AssembleForExport(asmIn)
    /\ asmStatus' = 200
    /\ asmPc' = "export"
    /\ UNCHANGED <<asmIn, evLinks, evOut>>
    /\ UNCHANGED storeVars
    /\ UNCHANGED restVars

AsmNext == AssembleGroups \/ AssembleData \/ AssembleExport

SpecAsm == AsmInit /\ [][AsmNext]_vars

----------------------------------------------------------------------------
(* The evaluator on the groups the assembler hands to the page             *)

EvalRules ==
    { FlatRule("include", "tags", sA, 0),
      FlatRule("include", "urls", sAB, 0),
      FlatRule("include", "names", sUpA, 1),
      FlatRule("include", "urls", sA, 1),
      FlatRule("exclude", "tags", sAB, 0),
      FlatRule("exclude", "urls", sUpA, 1) }

EvalRuleLists == SeqsUpTo(EvalRules, MaxRules)

Links ==
    { [name |-> n, url |-> u, tags |-> t] :
        n \in {sA, sUpA}, u \in {sA, sAB, sUpA}, t \in {{}, {sA, sAB}} }

\* link lists as GET /api/data returns them: no url twice
LinkSeqs ==
    { ls \in SeqsUpTo(Links, MaxLinks) :
        \A i, j \in DOMAIN ls : i # j => ls[i].url # ls[j].url }

EvalInit ==
    /\ StoreInit
    /\ asmIn \in EvalRuleLists
    /\ asmOut = [include |-> <<>>, exclude |-> <<>>]
    /\ asmStatus = 0
    /\ asmPc = "idle"
    /\ evLinks = <<>>
    /\ evOut = <<>>
    /\ RestInit

FilterLinks ==
    /\ asmPc = "data"
    /\ \E ls \in LinkSeqs :
          /\ evLinks' = ls
          /\ evOut' = filterLinks(ls, asmOut)
    /\ asmPc' = "evaluated"
    /\ UNCHANGED <<asmIn, asmOut, asmStatus>>
    /\ UNCHANGED storeVars
    /\ UNCHANGED restVars

EvalNext == AssembleData \/ FilterLinks

SpecEval == EvalInit /\ [][EvalNext]_vars

----------------------------------------------------------------------------
(* The browser extension: popup.js and service-worker.js.  Both hold the   *)
(* same normalizeUrl.  The server behind them is the link store above,     *)
(* the user logged in is user 1.                                           *)

lowerChar(c) == IF c = "A" THEN "a" ELSE IF c = "X" THEN "x" ELSE c

\* String.prototype.toLowerCase
toLowerCase(s) == [i \in DOMAIN s |-> lowerChar(s[i])]

\* the first position of character c in s, 0 when it is not there
firstOf(s, c) ==
    IF \E i \in DOMAIN s : s[i] = c
    THEN CHOOSE i \in DOMAIN s : s[i] = c /\ \A j \in 1..(i - 1) : s[j] # c
    ELSE 0

\* the part of s in front of position i, all of s when i = 0
before(s, i) == IF i = 0 THEN s ELSE SubSeq(s, 1, i - 1)

\* the part of s from position i on, empty when i = 0
from(s, i) == IF i = 0 THEN <<>> ELSE SubSeq(s, i, Len(s))

\* new URL(url): the parts of an http(s) url.  The host is lower-cased and
\* an empty path is "/"
parseUrl(url) ==
    LET rest == Tail(url)
        hashAt == firstOf(rest, "#")
        noHash == before(rest, hashAt)
        searchAt == firstOf(noHash, "?")
        noSearch == before(noHash, searchAt)
        pathAt == firstOf(noSearch, "/")
    IN [scheme |-> Head(url),
        host |-> toLowerCase(before(noSearch, pathAt)),
        pathname |-> IF pathAt = 0 THEN <<"/">> ELSE from(noSearch, pathAt),
        search |-> from(noHash, searchAt),
        hash |-> from(rest, hashAt)]

\* new URL(url) does not throw
parses(url) ==
    /\ url # <<>>
    /\ Head(url) \in {"http://", "https://"}
    /\ parseUrl(url).host # <<>>

\* normalizeUrl: one trailing slash of the path removed, the hash kept.
\* urlObj.search is '' for a bare "?", so that test never succeeds
normalizeUrl(url) ==
    IF url = <<>> THEN <<>>
    ELSE IF ~parses(trim(url)) THEN trim(url)
    ELSE LET u == parseUrl(trim(url))
             pathname == IF u.pathname # <<"/">> /\ u.pathname[Len(u.pathname)] = "/"
                         THEN SubSeq(u.pathname, 1, Len(u.pathname) - 1)
                         ELSE u.pathname
         IN <<u.scheme>> \o u.host \o pathname \o u.search \o u.hash

\* data.links.find(test): the first link in the order of the response
findLink(dataLinkSeq, test(_)) ==
    LET hits == {i \in DOMAIN dataLinkSeq : test(dataLinkSeq[i])}
    IN IF hits = {} THEN NoLink
       ELSE dataLinkSeq[CHOOSE i \in hits : \A j \in hits : i <= j]

\* checkLinkExists: exact, case-insensitive, normalized, contains
checkLinkExists(dataLinkSeq, url) ==
    LET searchUrl == trim(url)
        exact(link) == link.url # <<>> /\ trim(link.url) = searchUrl
        caseInsensitive(link) ==
            link.url # <<>> /\ toLowerCase(trim(link.url)) = toLowerCase(searchUrl)
        normalized(link) ==
            link.url # <<>> /\ normalizeUrl(trim(link.url)) = normalizeUrl(searchUrl)
        contains(link) ==
            /\ link.url # <<>>
            /\ \/ IsSubstring(searchUrl, trim(link.url))
               \/ IsSubstring(trim(link.url), searchUrl)
    IN IF findLink(dataLinkSeq, exact) # NoLink THEN findLink(dataLinkSeq, exact)
       ELSE IF findLink(dataLinkSeq, caseInsensitive) # NoLink
       THEN findLink(dataLinkSeq, caseInsensitive)
       ELSE IF findLink(dataLinkSeq, normalized) # NoLink
       THEN findLink(dataLinkSeq, normalized)
       ELSE findLink(dataLinkSeq, contains)

ExtFrame == UNCHANGED <<storeVars, engineVars, linkVars, user_config, users,
                        requests, exported>>

\* the popup opens on the active tab
CheckLinkExists ==
    /\ existingLink' = checkLinkExists(dataLinks(1), tabUrl)
    /\ UNCHANGED workerVars
    /\ ExtFrame

\* pages of a single-page application and of a site with paths
PageUrls ==
    { uA,
      uA \o <<"#", "x">>,
      uA \o <<"#", "x", "y">>,
      uA \o <<"#", "X">>,
      uA \o <<"/", "#", "x">>,
      uA \o <<"/", "p", "/">> }

\* the links user 1 saved before, no url twice
SavedLinkSets ==
    {{}} \cup {{[id |-> 1, user_id |-> 1, name |-> sA, url |-> u]} : u \in PageUrls}
         \cup {{[id |-> 1, user_id |-> 1, name |-> sA, url |-> p[1]],
                [id |-> 2, user_id |-> 1, name |-> sAB, url |-> p[2]]} :
                  p \in {q \in PageUrls \X PageUrls : q[1] # q[2]}}

PopupInit ==
    /\ StoreInit /\ EngineIdle
    /\ links \in SavedLinkSets
    /\ nextLinkId = Cardinality(links) + 1
    /\ tags = {} /\ nextTagId = 1 /\ link_tags = {}
    /\ user_config = {}
    /\ requests = <<>>
    /\ exported = NoFile
    /\ users = RegisteredUsers
    /\ linkUrlCache = {} /\ cacheTimestamp = 0 /\ now = 0
    /\ tabUrl \in PageUrls
    /\ badge = "" /\ calls = <<>> /\ changeCount = 0 /\ cacheGen = 0
    /\ existingLink = NoLink

PopupNext == CheckLinkExists

SpecPopup == PopupInit /\ [][PopupNext]_vars

----------------------------------------------------------------------------
(* service-worker.js.  The worker is one thread: the code between two      *)
(* awaits runs as one step.  A call that awaits the server is kept in      *)
(* calls until its response arrives; responses of different calls arrive   *)
(* in any order.  The server is reachable and user 1 is logged in, so      *)
(* checkAuth answers true and fetchLinks returns the links of user 1.      *)

\* const CACHE_DURATION = 60000
CACHE_DURATION == 60000

MaxCalls == 3       \* calls of the worker waiting at once
MaxTimers == 2      \* times the setInterval timer fires

\* the badge text of a saved page
Checkmark == "check"

WorkerUrls == {uA, uA \o <<"#", "x">>, <<"chrome://", "x">>}

\* !url || url.startsWith('chrome://') || ...
isInternal(url) ==
    url = <<>> \/ Head(url) \in {"chrome://", "chrome-extension://", "about:"}

\* Date.now() - cacheTimestamp > CACHE_DURATION
isStale == now - cacheTimestamp > CACHE_DURATION

\* linkUrlCache after links.forEach: every url and its normalized form
cachedUrls(urlSet) == urlSet \cup {normalizeUrl(u) : u \in urlSet}

\* linkUrlCache.has(url) || linkUrlCache.has(normalizeUrl(url))
isUrlSaved(cache, url) == url \in cache \/ normalizeUrl(url) \in cache

\* the badge updateIconForTab sets after isUrlSaved answered
badgeFor(cache, url) == IF isUrlSaved(cache, url) THEN Checkmark ELSE ""

\* what GET /api/data holds for user 1
serverUrls == {l.url : l \in {r \in links : r.user_id = 1}}

Waiting(kind, url) == [kind |-> kind, url |-> url, pc |-> "sent", links |-> {}, gen |-> 0]

removeAt(seq, i) == SubSeq(seq, 1, i - 1) \o SubSeq(seq, i + 1, Len(seq))

\* updateIconForTab(tabId, url) up to its first await on the server: an
\* internal page clears the badge, a fresh cache answers at once, a stale
\* one makes isUrlSaved call updateLinkCache
updateIconForTab(url, others) ==
    IF isInternal(url)
    THEN badge' = "" /\ calls' = others
    ELSE IF ~isStale
    THEN badge' = badgeFor(linkUrlCache, url) /\ calls' = others
    ELSE badge' = badge /\ calls' = Append(others, Waiting("icon", url))

CacheKept == UNCHANGED <<linkUrlCache, cacheTimestamp, cacheGen>>

\* chrome.tabs.onUpdated with changeInfo.url
TabUpdated(url) ==
    /\ url # tabUrl
    /\ Len(calls) < MaxCalls
    /\ tabUrl' = url
    /\ updateIconForTab(url, calls)
    /\ CacheKept
    /\ UNCHANGED <<now, changeCount, existingLink>>
    /\ ExtFrame

\* chrome.tabs.onActivated
TabActivated ==
    /\ tabUrl # <<>>
    /\ Len(calls) < MaxCalls
    /\ updateIconForTab(tabUrl, calls)
    /\ CacheKept
    /\ UNCHANGED <<now, tabUrl, changeCount, existingLink>>
    /\ ExtFrame

\* setInterval(updateLinkCache, CACHE_DURATION): the timer fires
TimerFires ==
    /\ now < (MaxTimers + 1) * (CACHE_DURATION + 1)
    /\ Len(calls) < MaxCalls
    /\ now' = now + CACHE_DURATION + 1
    /\ calls' = Append(calls, Waiting("cache", <<>>))
    /\ CacheKept
    /\ UNCHANGED <<tabUrl, badge, changeCount, existingLink>>
    /\ ExtFrame

\* the server handles the GET /api/data of updateLinkCache
ServerAnswers(i) ==
    /\ calls[i].pc = "sent"
    /\ calls' = [calls EXCEPT ![i].pc = "answered", ![i].links = serverUrls,
                              ![i].gen = changeCount]
    /\ CacheKept
    /\ UNCHANGED <<now, tabUrl, badge, changeCount, existingLink>>
    /\ ExtFrame

\* the response arrives: updateLinkCache fills the cache, and the
\* updateIconForTab that waited for it sets the badge
ResponseArrives(i) ==
    /\ calls[i].pc = "answered"
    /\ linkUrlCache' = cachedUrls(calls[i].links)
    /\ cacheTimestamp' = now
    /\ cacheGen' = calls[i].gen
    /\ badge' = IF calls[i].kind = "icon"
                THEN badgeFor(cachedUrls(calls[i].links), calls[i].url)
                ELSE badge
    /\ calls' = removeAt(calls, i)
    /\ UNCHANGED <<now, tabUrl, changeCount, existingLink>>
    /\ ExtFrame

\* the popup saves the page of the tab: POST /api/links
PopupSaves ==
    /\ ~isInternal(tabUrl)
    /\ nextLinkId <= MaxStoredLinks
    /\ PostLink(1, sA, tabUrl, <<>>)

\* the popup sent linkChanged after every save that succeeded
messagesSent == Cardinality({l \in links : l.user_id = 1})

\* chrome.runtime.onMessage 'linkChanged': the cache is invalidated and
\* chrome.tabs.query is called
LinkChanged ==
    /\ changeCount < messagesSent
    /\ Len(calls) < MaxCalls
    /\ cacheTimestamp' = 0
    /\ changeCount' = changeCount + 1
    /\ calls' = Append(calls, Waiting("query", <<>>))
    /\ UNCHANGED <<linkUrlCache, cacheGen, now, tabUrl, badge, existingLink>>
    /\ ExtFrame

\* the callback of chrome.tabs.query: updateIconForTab(tabs[0].id, tabs[0].url)
QueryCallback(i) ==
    /\ calls[i].kind = "query"
    /\ updateIconForTab(tabUrl, removeAt(calls, i))
    /\ CacheKept
    /\ UNCHANGED <<now, tabUrl, changeCount, existingLink>>
    /\ ExtFrame

WorkerInit ==
    /\ StoreInit /\ EngineIdle
    /\ links = {} /\ nextLinkId = 1
    /\ tags = {} /\ nextTagId = 1 /\ link_tags = {}
    /\ user_config = {}
    /\ requests = <<>>
    /\ exported = NoFile
    /\ users = RegisteredUsers
    /\ linkUrlCache = {} /\ cacheTimestamp = 0
    /\ now = CACHE_DURATION + 1
    /\ tabUrl = <<>>
    /\ badge = "" /\ calls = <<>> /\ changeCount = 0 /\ cacheGen = 0
    /\ existingLink = NoLink

WorkerNext ==
    \/ \E url \in WorkerUrls : TabUpdated(url)
    \/ TabActivated
    \/ TimerFires
    \/ \E i \in DOMAIN calls : ServerAnswers(i) /\ calls[i].kind # "query"
    \/ \E i \in DOMAIN calls : ResponseArrives(i)
    \/ PopupSaves
    \/ LinkChanged
    \/ \E i \in DOMAIN calls : QueryCallback(i)

SpecWorker == WorkerInit /\ [][WorkerNext]_vars

----------------------------------------------------------------------------
(* Properties *)

AllBlocks(group) == Range(group.include) \cup Range(group.exclude)

HasEveryBlockFilled(include, exclude) ==
    \A b \in Range(include) \cup Range(exclude) : ~isEmptyBlock(b)

\* the same number of blocks, in the same order, each with the same value sets
SameBlocks(xs, ys) ==
    /\ Len(xs) = Len(ys)
    /\ \A i \in DOMAIN xs : \A t \in MatchTypes : fieldSet(xs[i], t) = fieldSet(ys[i], t)

SavedOk == response.op \in {"POST", "PUT"} /\ response.status \in {200, 201}

\* C1: a saved group whose blocks all hold a value is read back by
\* GET /api/groups with the same include and exclude blocks, in the same
\* order, each block with the same sets of tags, names and urls.
C1_RoundTrip ==
    (SavedOk /\ HasEveryBlockFilled(response.include, response.exclude)) =>
        LET body == formattedGroups(response.user)
        IN \E i \in DOMAIN body :
              /\ body[i].id = response.id
              /\ SameBlocks(body[i].include, response.include)
              /\ SameBlocks(body[i].exclude, response.exclude)

C1_Witness ==
    /\ response.op = "PUT" /\ response.status = 200
    /\ HasEveryBlockFilled(response.include, response.exclude)
    /\ Len(response.include) = 2
    /\ response.include[1] # response.include[2]
    /\ Len(response.exclude) >= 1

NoMalformedRule == \A i \in DOMAIN asmIn : ~IsMalformed(asmIn[i])

Assembled == asmPc \in {"groups", "data", "export", "evaluated"}

\* whole-string, case-sensitive comparison of a link with the values of a block
ExactHit(link, block) ==
    \/ \E t \in link.tags :
          "tags" \in DOMAIN block /\ \E i \in DOMAIN block["tags"] : block["tags"][i] = t
    \/ "names" \in DOMAIN block /\ \E i \in DOMAIN block["names"] : block["names"][i] = link.name
    \/ "urls" \in DOMAIN block /\ \E i \in DOMAIN block["urls"] : block["urls"][i] = link.url

Kept(link) == \E k \in DOMAIN evOut : evOut[k] = link

C3_BlockMatchExact ==
    Assembled =>
        /\ asmPc = "data" =>
              \A b \in AllBlocks(asmOut) : \A L \in Links :
                 ~isEmptyBlock(b) => (blockMatches(L, b) <=> ExactHit(L, b))
        /\ (asmPc = "evaluated" /\ Len(asmOut.include) = 1 /\ asmOut.exclude = <<>>) =>
              \A i \in DOMAIN evLinks :
                 Kept(evLinks[i]) <=> ExactHit(evLinks[i], asmOut.include[1])

C3_Witness ==
    /\ asmPc = "evaluated"
    /\ asmOut.exclude = <<>>
    /\ Len(asmOut.include) = 1
    /\ DOMAIN asmOut.include[1] = {"urls"}
    /\ asmOut.include[1]["urls"] = <<sA>>
    /\ Len(evLinks) = 2
    /\ evLinks[1].url = sAB /\ evLinks[1].tags = {} 
    /\ evLinks[2].url = sUpA /\ evLinks[2].tags = {}
    /\ evOut = <<>>

withEmptyInclude(group) == [group EXCEPT !.include = Append(@, EmptyBlock)]
withEmptyExclude(group) == [group EXCEPT !.exclude = Append(@, EmptyBlock)]

\* C4: adding a block with no tags, names or urls to the include or to the
\* exclude sequence of a group changes the membership of no link.
C4_EmptyBlockIsNoOp ==
    asmPc = "evaluated" =>
        \A i \in DOMAIN evLinks :
           /\ matches(evLinks[i], withEmptyInclude(asmOut)) = matches(evLinks[i], asmOut)
           /\ matches(evLinks[i], withEmptyExclude(asmOut)) = matches(evLinks[i], asmOut)

kthSmallest(S, k) == CHOOSE x \in S : Cardinality({y \in S : y < x}) = k - 1

\* C5: filterLinks returns the matching links of its input, each once, in
\* the order in which the input holds them.
C5_StableFilter ==
    asmPc = "evaluated" =>
        LET hits == {i \in DOMAIN evLinks : matches(evLinks[i], asmOut)}
        IN /\ Len(evOut) = Cardinality(hits)
           /\ \A k \in DOMAIN evOut : evOut[k] = evLinks[kthSmallest(hits, k)]

C5_Witness ==
    /\ asmPc = "evaluated"
    /\ asmOut.include # <<>>
    /\ Len(evLinks) = 2
    /\ evOut = evLinks
    /\ evLinks[1].name = sUpA /\ evLinks[2].name = sA

RulesAt(ruleType, blockIndex) ==
    {asmIn[i] : i \in {j \in DOMAIN asmIn :
                        /\ asmIn[j].rule_type = ruleType
                        /\ asmIn[j].block_index = blockIndex}}

IndicesOf(ruleType) ==
    {asmIn[i].block_index : i \in {j \in DOMAIN asmIn : asmIn[j].rule_type = ruleType}}

BlocksAsIndexed(ruleType, blocks) ==
    /\ Len(blocks) = Cardinality(IndicesOf(ruleType))
    /\ \A k \in DOMAIN blocks :
          /\ DOMAIN blocks[k] \subseteq MatchTypes
          /\ \A t \in MatchTypes :
                fieldSet(blocks[k], t) =
                    {r.match_value : r \in {q \in RulesAt(ruleType, kthSmallest(IndicesOf(ruleType), k)) :
                                             q.match_type = t}}

\* C6: for well-formed rules in any row order the assembler emits, per rule
\* type, one block for each block index that has a rule, in ascending numeric
\* order of the index, each block holding exactly the values of its rules
\* under their match types; no rules give no blocks.
C6_BlocksByIndex ==
    (Assembled /\ NoMalformedRule) =>
        /\ BlocksAsIndexed("include", asmOut.include)
        /\ BlocksAsIndexed("exclude", asmOut.exclude)
        /\ asmIn = <<>> => (asmOut.include = <<>> /\ asmOut.exclude = <<>>)

C6_Witness ==
    /\ asmPc = "groups"
    /\ Len(asmIn) = 3
    /\ asmIn[1].rule_type = "include" /\ asmIn[1].block_index = 10
    /\ asmIn[2].rule_type = "include" /\ asmIn[2].block_index = 2
    /\ asmIn[3].rule_type = "include" /\ asmIn[3].block_index = 10
    /\ asmIn[1].match_value # asmIn[2].match_value
    /\ Len(asmOut.include) = 2
    /\ asmIn[2].match_value \in fieldSet(asmOut.include[1], asmIn[2].match_type)

\* C7: every block the assembler emits carries tags, names and urls, each an
\* array, empty when the block has no rule of that match type.
C7_AllFieldsPresent ==
    (Assembled /\ NoMalformedRule) =>
        \A b \in AllBlocks(asmOut) : DOMAIN b = MatchTypes

\* C8: a rule stored more than once shows its value once in the assembled block.
C8_RepeatedRuleOnce ==
    (Assembled /\ NoMalformedRule) =>
        /\ asmStatus = 200
        /\ \A b \in AllBlocks(asmOut) : \A t \in DOMAIN b :
              \A i, j \in DOMAIN b[t] : b[t][i] = b[t][j] => i = j

C10_PutReplacesRules ==
    [][ (response'.op = "PUT" /\ response'.status = 200) =>
          /\ rowsOfGroup(group_rules', response'.id)
                = insertedRows(response'.id, response'.include, response'.exclude)
          /\ \A g \in 1..MaxGroups :
                g # response'.id =>
                    rowsOfGroup(group_rules', g) = rowsOfGroup(group_rules, g) ]_vars

C10_Witness ==
    /\ response.op = "PUT" /\ response.status = 200
    /\ response.changes > 0
    /\ rowsOfGroup(group_rules, response.id) # <<>>
    /\ \E g \in groups : g.id # response.id /\ rowsOfGroup(group_rules, g.id) # <<>>

----------------------------------------------------------------------------
\* C12: once DELETE /api/groups/:id has answered 200, group_rules holds no
\* row whose group_id is the deleted id.
C12_DeleteRemovesRules ==
    (response.op = "DELETE" /\ response.status = 200) =>
        rowsOfGroup(group_rules, response.id) = <<>>

----------------------------------------------------------------------------
WhitespaceChars == {" ", "\t", "\n", "\r"}

\* s is non-empty and s.trim() = s
IsTrimmedNonEmpty(s) ==
    /\ s # <<>>
    /\ s[1] \notin WhitespaceChars
    /\ s[Len(s)] \notin WhitespaceChars

\* C13: every match_value stored in group_rules is a non-empty string with
\* no leading and no trailing whitespace.
C13_MatchValuesTrimmed ==
    \A i \in DOMAIN group_rules : IsTrimmedNonEmpty(group_rules[i].match_value)

\* C18: after a save, the sequences read back by GET /api/groups have the
\* submitted number of blocks and the block at each position holds the
\* submitted sets, also when a submitted block is empty.
C18_PositionsPreserved ==
    SavedOk =>
        LET body == formattedGroups(response.user)
        IN \A i \in DOMAIN body :
              body[i].id = response.id =>
                 /\ SameBlocks(response.include, body[i].include)
                 /\ SameBlocks(response.exclude, body[i].exclude)

----------------------------------------------------------------------------
\* the blocks a definition reads back as: blocks without a value leave no row
ReadBack(blockSeq) ==
    LET filled(b) == ~isEmptyBlock(b) IN SelectSeq(blockSeq, filled)

IsWhole(g) ==
    \E b \in ConcBodies :
        /\ SameBlocks(g.include, ReadBack(b.include))
        /\ SameBlocks(g.exclude, ReadBack(b.exclude))

\* C11: every answer of GET /api/groups and GET /api/data shows group 1,
\* which only PUT and import rewrite, with the whole of a definition that
\* was stored or submitted, never with none or part of its rules.
C11_ReadersSeeWholeGroup ==
    (response.op \in {"GET", "DATA"} /\ response.status = 200) =>
        \A i \in DOMAIN response.body :
            response.body[i].id = 1 => IsWhole(response.body[i])

\* C14: no user has two groups with the same name.
C14_UniqueGroupNames ==
    \A g, h \in groups : (g.user_id = h.user_id /\ g.name = h.name) => g.id = h.id

\* two requests that both passed their duplicate check for the same name,
\* one of them stopped by the constraint
C14_Witness ==
    /\ response.op \in {"POST", "PUT"} /\ response.status = 500
    /\ Cardinality(groups) = 2

----------------------------------------------------------------------------
\* C16: every stored link has at most 50 tags, each a non-empty name of at
\* most 100 characters.
C16_TagLimits ==
    \A l \in links :
        LET names == tagNamesOf(link_tags, tags, l.id)
        IN /\ Cardinality(names) <= MaxTagsPerLink
           /\ \A n \in names : n # <<>> /\ Len(n) <= MaxTagLength

----------------------------------------------------------------------------
\* the entries of a links array as the import reads them
ReadLinks(entries) ==
    [i \in DOMAIN entries |->
        [name |-> importedName(fieldOrEmpty(entries[i], "name")),
         url |-> trim(fieldOrEmpty(entries[i], "url")),
         tags |-> fieldOrEmpty(entries[i], "tags")]]

\* the data rows of a CSV text as the import reads them; a row of fewer than
\* two fields is no entry
ReadCsv(csvData) ==
    LET lines == csvLines(csvData)
        first == parseCsvLine(lines[1])
        header == [i \in DOMAIN first |-> trim(first[i])]
        nameIndex == indexOf(header, <<"n", "a", "m", "e">>)
        urlIndex == indexOf(header, <<"u", "r", "l">>)
        tagsIndex == indexOf(header, <<"t", "a", "g", "s">>)
        entry(line) ==
            LET fields == parseCsvLine(line)
            IN [name |-> IF fieldAt(fields, nameIndex) = <<>> THEN Untitled
                         ELSE fieldAt(fields, nameIndex),
                url |-> IF Len(fields) < 2 THEN <<>> ELSE fieldAt(fields, urlIndex),
                tags |-> csvTags(fieldAt(fields, tagsIndex))]
    IN [i \in 1..(Len(lines) - 1) |-> entry(lines[i + 1])]

\* the tag names an entry asks for
ImportedTags(tagList) ==
    {substring(trim(tagList[k]), MaxTagLength) : k \in DOMAIN tagList} \ {<<>>}

\* the step merged the entries into the links of the user, keyed by url: the
\* last entry of a url gives the link its name and its tags, a link that was
\* there keeps its id, and no other link changed
MergedByUrl(userId, entries) ==
    LET urls == {entries[i].url : i \in DOMAIN entries}
        last(u) == entries[CHOOSE i \in DOMAIN entries :
                              /\ entries[i].url = u
                              /\ \A j \in DOMAIN entries : j > i => entries[j].url # u]
    IN /\ \A u \in urls :
            \E l \in links' :
               /\ l.user_id = userId /\ l.url = u
               /\ l.name = last(u).name
               /\ tagNamesOf(link_tags', tags', l.id) = ImportedTags(last(u).tags)
               /\ \A o \in links : o.user_id = userId /\ o.url = u => o.id = l.id
               /\ \A o \in links' : o.user_id = userId /\ o.url = u => o = l
       /\ \A l \in links :
            l.user_id # userId \/ l.url \notin urls
               => /\ l \in links'
                  /\ tagNamesOf(link_tags', tags', l.id) = tagNamesOf(link_tags, tags, l.id)
       /\ \A l \in links' : l \in links \/ (l.user_id = userId /\ l.url \in urls)

HasUrl(entry) == entry.url # <<>>
HasWebUrl(entry) == isValidUrl(entry.url)

ImportedLinks == response'.op = "IMPORT links" /\ response'.status = 200
ImportedCsv == response'.op = "IMPORT csv" /\ response'.status = 200

----------------------------------------------------------------------------
NoTwoLinksOfOneUrl ==
    \A a \in links, b \in links :
        a.user_id = b.user_id /\ a.url = b.url => a.id = b.id

\* the conflict check of the PUT in the slot is about to find the new url
\* on another link of the user
PutFindsUrlTaken(slot) ==
    LET r == requests[slot]
    IN /\ r.op = "PUT link" /\ r.pc = "conflict"
       /\ r.url # r.originalUrl
       /\ \E l \in links : l.user_id = r.user /\ l.url = r.url /\ l.id # r.id

\* C15: under any interleaving of POST /api/links, PUT /api/links and
\* imports no user has two links of one url, and a PUT that finds its new
\* url on another link of the user answers 409 and changes nothing.
C15_UniqueLinkUrls ==
    /\ []NoTwoLinksOfOneUrl
    /\ [][\A slot \in Slots :
            PutFindsUrlTaken(slot) /\ requests'[slot] # requests[slot]
               => /\ response'.op = "PUT link" /\ response'.status = 409
                  /\ requests'[slot] = Idle
                  /\ UNCHANGED linkVars]_vars

\* a PUT was answered 409 while the other request, past its own check, has
\* its write still to come
C15_Witness ==
    /\ response.op = "PUT link" /\ response.status = 409
    /\ \E slot \in Slots :
          /\ requests[slot] # Idle
          /\ requests[slot].pc \in {"insert", "update"}
    /\ Cardinality(links) = 2

----------------------------------------------------------------------------
\* the group of that name as a later export of the user returns it
LaterExport(userId, name) ==
    LET gs == exportedGroups(userId)
    IN {gs[i] : i \in {i \in DOMAIN gs : gs[i].name = name}}

ImportedFile == response.op = "IMPORT tabinator" /\ response.status = 200

----------------------------------------------------------------------------
HasNoUserId(req) ==
    \/ "session" \notin DOMAIN req
    \/ "userId" \notin DOMAIN req.session
    \/ req.session.userId = 0

\* C20: a request to a route behind requireAuth that carries no session
\* userId is answered 401, the answer holds nothing of the store, and no
\* table changes.
C20_NoSessionNoAccess ==
    [][\A req \in AuthRequests :
          HasNoUserId(req) /\ Route(req)
             => /\ response'.status = 401
                /\ DOMAIN response' = {"op", "status"}
                /\ UNCHANGED <<groups, nextGroupId, group_rules, links, nextLinkId,
                               tags, nextTagId, link_tags, user_config, users,
                               exported>>]_vars

\* a request without a session was refused while groups, links and a
\* changed configuration were stored
C20_Witness ==
    /\ response.status = 401 /\ DOMAIN response = {"op", "status"}
    /\ groups # {} /\ links # {} /\ link_tags # {}
    /\ \E c \in user_config : c.warning_tabs_open # DefaultWarningTabs

----------------------------------------------------------------------------
NameTaken(userId, name, exceptId) ==
    \E g \in groups : g.user_id = userId /\ g.name = name /\ g.id # exceptId

Owns(userId, groupId) == \E g \in groups : g.id = groupId /\ g.user_id = userId

\* C26: POST /api/groups with a name the user has, and PUT /api/groups/:id
\* with a name another group of the user has, answer 409 and leave groups
\* and group_rules as they are; a PUT that keeps the group's own name is
\* accepted.
C26_DuplicateNameRefused ==
    [][ /\ \A u \in Users, n \in Names, inc \in StoreIncludes, exc \in StoreExcludes :
              NameTaken(u, n, 0) /\ PostGroup(u, n, inc, exc)
                 => /\ response'.op = "POST" /\ response'.status = 409
                    /\ UNCHANGED <<groups, nextGroupId, group_rules>>
        /\ \A u \in Users, id \in 1..MaxGroups, n \in Names,
              inc \in StoreIncludes, exc \in StoreExcludes :
              Owns(u, id) /\ PutGroup(u, id, n, inc, exc)
                 => IF NameTaken(u, n, id)
                    THEN /\ response'.op = "PUT" /\ response'.status = 409
                         /\ UNCHANGED <<groups, nextGroupId, group_rules>>
                    ELSE /\ response'.op = "PUT" /\ response'.status = 200
                         /\ \E g \in groups' : g.id = id /\ g.name = n ]_vars

\* a rename onto the name of the user's other group was refused while both
\* groups have rules
C26_Witness ==
    /\ response.op = "PUT" /\ response.status = 409
    /\ \E g \in groups, h \in groups :
          /\ g.user_id = h.user_id /\ g.id # h.id
          /\ rowsOfGroup(group_rules, g.id) # <<>>
          /\ rowsOfGroup(group_rules, h.id) # <<>>

----------------------------------------------------------------------------
WebSchemes == {"http://", "https://"}

\* C27: every stored link url is a non-empty url whose scheme is http or
\* https.
C27_LinkUrlsAreWeb ==
    \A l \in links : l.url # <<>> /\ Head(l.url) \in WebSchemes

----------------------------------------------------------------------------
ConfigInRange(c) ==
    /\ 1 <= c.warning_tabs_open /\ c.warning_tabs_open <= TabsLimit
    /\ 0 <= c.max_tabs_open /\ c.max_tabs_open <= TabsLimit
    /\ (c.max_tabs_open # 0 => c.warning_tabs_open <= c.max_tabs_open)

\* C28: every stored configuration has 1 <= warning_tabs_open <= 1000,
\* 0 <= max_tabs_open <= 1000, and warning_tabs_open <= max_tabs_open unless
\* max_tabs_open = 0.
C28_ConfigInRange == \A c \in user_config : ConfigInRange(c)

----------------------------------------------------------------------------
Counted(r) == r.imported + r.updated + r.skipped

\* C30: the response of an import of a links array or of a CSV counts every
\* entry in exactly one of imported, updated and skipped: the three add up
\* to the number of array elements, or of data rows.
C30_EveryEntryCountedOnce ==
    /\ response.op = "IMPORT links" /\ response.status = 200
          => Counted(response) = Len(response.links)
    /\ response.op = "IMPORT csv" /\ response.status = 200
          => Counted(response) = Len(csvLines(response.csvData)) - 1

----------------------------------------------------------------------------
\* C25: when POST /api/groups or PUT /api/groups/:id answers 500, the
\* groups and the rules are what they were before the request.
C25_FailedWriteLeavesStore ==
    [][response'.op \in {"POST", "PUT"} /\ response'.status = 500
          => UNCHANGED <<groups, group_rules>>]_vars

----------------------------------------------------------------------------
\* the rows owned by another user than user 1
rowsOfOthers ==
    LET foreignGroup(id) == \E g \in groups : g.id = id /\ g.user_id # 1
        foreignLink(id) == \E l \in links : l.id = id /\ l.user_id # 1
        foreignRule(r) == foreignGroup(r.group_id)
    IN [groups |-> {g \in groups : g.user_id # 1},
        group_rules |-> SelectSeq(group_rules, foreignRule),
        links |-> {l \in links : l.user_id # 1},
        tags |-> {t \in tags : t.user_id # 1},
        link_tags |-> {lt \in link_tags : foreignLink(lt.link_id)},
        user_config |-> {c \in user_config : c.user_id # 1}]

\* no request of user 1 changes a row of another user
OthersRowsKept == rowsOfOthers' = rowsOfOthers

\* the groups GET /api/groups returns to user 1 are groups of user 1
OnlyOwnGroupsReturned ==
    GetGroups(1) => \A i \in DOMAIN response'.body : Owns(1, response'.body[i].id)

\* PUT and DELETE /api/groups/:id with the id of another user's group
\* answer 404 and change nothing
ForeignIdRefused ==
    /\ \A id \in 1..MaxGroups, b \in StoreBodies :
          Owns(2, id) /\ PutGroup(1, id, "g", b.include, b.exclude)
             => response'.status = 404 /\ UNCHANGED <<groups, group_rules>>
    /\ \A id \in 1..MaxGroups :
          Owns(2, id) /\ DeleteGroup(1, id)
             => response'.status = 404 /\ UNCHANGED <<groups, group_rules>>

\* the run in which the other users store nothing gives the k-th group
\* user 1 creates the id k; while no group was deleted (every id handed
\* out is still in the table) k - 1 is the number of groups user 1 has
SameResponseWhateverOthersStore ==
    \A b \in StoreBodies :
       /\ PostGroup(1, "g", b.include, b.exclude)
       /\ response'.status = 201
       /\ Cardinality(groups) = nextGroupId - 1
       => response'.id = Cardinality({g \in groups : g.user_id = 1}) + 1

\* C21: no request of user 1 returns or changes a row of another user; PUT
\* and DELETE of a group with the id of another user's group answer 404 and
\* change nothing; the responses to user 1 do not depend on what the other
\* users stored.
C21_Isolation ==
    [][RequestsOfUser1 => /\ OthersRowsKept
                          /\ OnlyOwnGroupsReturned
                          /\ ForeignIdRefused
                          /\ SameResponseWhateverOthersStore]_vars

\* the part of the isolation that is about rows and ids
RowsIsolated ==
    [][RequestsOfUser1 => /\ OthersRowsKept
                          /\ OnlyOwnGroupsReturned
                          /\ ForeignIdRefused]_vars

----------------------------------------------------------------------------
\* the group of that name as GET /api/groups assembles it
AssembledGroup(userId, name) ==
    LET body == formattedGroups(userId)
    IN {[include |-> body[i].include, exclude |-> body[i].exclude] :
          i \in {j \in DOMAIN body : body[j].name = name}}

YamlBlocks(group) ==
    [include |-> IF "include" \in DOMAIN group THEN group.include ELSE <<>>,
     exclude |-> IF "exclude" \in DOMAIN group THEN group.exclude ELSE <<>>]

\* C22: after the migration every named group of links.yaml is assembled
\* with the include and exclude blocks it had in the file, the same number
\* of blocks with the same values, and matches the same links.
C22_MigrationKeepsGroups ==
    response.op = "MIGRATE" /\ "groups" \in DOMAIN response.data =>
       \A k \in DOMAIN response.data.groups :
          "name" \in DOMAIN response.data.groups[k] =>
             LET yaml == YamlBlocks(response.data.groups[k])
             IN \E g \in AssembledGroup(adminId, response.data.groups[k].name) :
                   /\ SameBlocks(g.include, yaml.include)
                   /\ SameBlocks(g.exclude, yaml.exclude)
                   /\ \A link \in Links : matches(link, g) = matches(link, yaml)

----------------------------------------------------------------------------
\* the '#...' part of a url, empty when it has none
fragment(url) == from(url, firstOf(url, "#"))

\* C23: checkLinkExists never returns a saved link whose url differs from
\* the url of the current tab in its hash fragment.
C23_FragmentsDistinct ==
    existingLink # NoLink => fragment(existingLink.url) = fragment(tabUrl)

----------------------------------------------------------------------------
\* an updateIconForTab call has not finished
IconPending == \E i \in DOMAIN calls : calls[i].kind \in {"icon", "query"}

\* C24: when the last pending updateIconForTab call of the tab finishes,
\* the badge is the checkmark exactly when the url the tab has now is saved
\* according to the link cache: a call started for an earlier url does not
\* leave its result on the badge.
C24_BadgeFollowsTab ==
    [][IconPending /\ ~IconPending'
          => badge' = (IF isInternal(tabUrl') THEN ""
                       ELSE badgeFor(linkUrlCache', tabUrl'))]_vars

\* isUrlSaved answers in this step: at once from a fresh cache, or when the
\* response it waited for arrives
IsUrlSavedAnswers ==
    \/ \E i \in DOMAIN calls : ResponseArrives(i) /\ calls[i].kind = "icon"
    \/ /\ ~isStale
       /\ \/ \E url \in WorkerUrls : TabUpdated(url) /\ ~isInternal(url)
          \/ TabActivated /\ ~isInternal(tabUrl)
          \/ \E i \in DOMAIN calls : QueryCallback(i) /\ ~isInternal(tabUrl)

\* C29: isUrlSaved answers only from a link list the server served after
\* the last linkChanged message and that is not older than CACHE_DURATION.
C29_CacheFresh ==
    [][IsUrlSavedAnswers
          => /\ cacheGen' = changeCount'
             /\ now' - cacheTimestamp' <= CACHE_DURATION]_vars

====
